---- MODULE Spec2Model ----
(***************************************************************************)
(* EasyScript (src/easyscript/easyscript.py): the statement splitter, the  *)
(* lexer, the combined parser/evaluator, the syntax validator and the two  *)
(* entry points evaluate and verify of EasyScriptEvaluator.                *)
(*                                                                         *)
(* A text is a string; Ch(code, i) is its i-th character (1-based).  A     *)
(* Python value is a record [t, n, d, s]: t is the Python type, n/d the    *)
(* number (d = 1 for int and bool, n/d in lowest terms for float), s the   *)
(* text of a str or the identity of a host object.  Exceptions are carried *)
(* in the field err of the parser state ("" = no exception raised).        *)
(***************************************************************************)
EXTENDS Integers, Sequences, FiniteSets, TLC

\* ------------------------------------------------------------------ bounds
\* number of evaluate/verify calls made on the instance
MaxCalls == 2

\* number of evaluate calls made on the instance when the calls are given
\* expression statements
MaxExprCalls == 1

\* longest property chain after the root of a dot-chain
MaxChain == 2

\* most arguments written in one call
MaxArgs == 2

\* largest integer literal x of the operands 0..x of arithmetic
MaxOperand == 3

\* source texts of the splitter and the lexer have at most MaxLen characters
MaxLen == 5

\* the host clock advances at most MaxTicks times
MaxTicks == 2

\* ------------------------------------------------------------------ values
None == [t |-> "none", n |-> 0, d |-> 1, s |-> ""]

MkInt(i) == [t |-> "int", n |-> i, d |-> 1, s |-> ""]

MkBool(b) == [t |-> "bool", n |-> IF b THEN 1 ELSE 0, d |-> 1, s |-> ""]

MkStr(str) == [t |-> "str", n |-> 0, d |-> 1, s |-> str]

MkObj(id) == [t |-> "obj", n |-> 0, d |-> 1, s |-> id]

Abs(i) == IF i < 0 THEN 0 - i ELSE i

RECURSIVE Gcd(_, _)
Gcd(a, b) == IF b = 0 THEN a ELSE Gcd(b, a % b)

\* a Python float, kept as the fraction num/den in lowest terms
MkFloat(num, den) ==
    LET sg == IF den < 0 THEN 0 - 1 ELSE 1
        g  == Gcd(Abs(num), Abs(den))
    IN  [t |-> "float", n |-> (sg * num) \div g, d |-> (sg * den) \div g, s |-> ""]

\* ------------------------------------------------------------ characters
\* Ch(code, i) of the source, for the 1-based position i
Ch(code, i) == SubSeq(code, i, i)

Digits == <<"0", "1", "2", "3", "4", "5", "6", "7", "8", "9">>

isdigit(c) == \E k \in 1..10 : Digits[k] = c

DigitVal(c) == (CHOOSE k \in 1..10 : Digits[k] = c) - 1

isalpha(c) ==
    c \in {"a", "b", "c", "d", "e", "f", "g", "h", "i", "j", "k", "l", "m",
           "n", "o", "p", "q", "r", "s", "t", "u", "v", "w", "x", "y", "z",
           "T", "F"}

isalnum(c) == isalpha(c) \/ isdigit(c)

isspace(c) == c \in {" ", "\n", "\t", "\r"}

\* str.strip(): drop leading and trailing whitespace
RECURSIVE lstrip(_)
lstrip(str) ==
    IF str # "" /\ isspace(Head(str)) THEN lstrip(Tail(str)) ELSE str

RECURSIVE rstrip(_)
rstrip(str) ==
    IF str # "" /\ isspace(Ch(str, Len(str)))
    THEN rstrip(SubSeq(str, 1, Len(str) - 1)) ELSE str

strip(str) == rstrip(lstrip(str))

\* ------------------------------------------------------ statement splitter
\* one iteration of the while loop of _parse_statements at position i
\* (1-based), then the rest of the loop and the final flush
\* stmt = current_statement.strip(); keep it unless empty or a '#' line
flush_untrimmed(statements, current_statement) ==
    LET stmt == strip(current_statement)
    IN  IF stmt # "" /\ Head(stmt) # "#"
        THEN Append(statements, current_statement) ELSE statements

flush(statements, current_statement) ==
    LET stmt == strip(current_statement)
    IN  IF stmt # "" /\ Head(stmt) # "#" THEN Append(statements, stmt) ELSE statements

RECURSIVE split_loop(_, _, _, _, _, _)
split_loop(code, i, statements, current_statement, in_string, escape_next) ==
    IF i > Len(code) THEN flush(statements, current_statement)
    ELSE LET char == Ch(code, i) IN
         IF escape_next
         THEN split_loop(code, i + 1, statements, current_statement \o char,
                         in_string, FALSE)
         ELSE IF char = "\\" /\ in_string
         THEN split_loop(code, i + 1, statements, current_statement \o char,
                         in_string, TRUE)
         ELSE IF char = "\""
         THEN split_loop(code, i + 1, statements, current_statement \o char,
                         ~in_string, FALSE)
         ELSE IF char = "\n"
         THEN IF in_string
              THEN split_loop(code, i + 1, statements,
                              current_statement \o char, in_string, FALSE)
              ELSE split_loop(code, i + 1, flush(statements, current_statement),
                              "", in_string, FALSE)
         ELSE split_loop(code, i + 1, statements, current_statement \o char,
                         in_string, FALSE)

_parse_statements(code) == split_loop(code, 1, <<>>, "", FALSE, FALSE)

\* ------------------------------------------------------------------- lexer
Keywords == {"if", "then", "else", "and", "or", "not", "True", "False",
             "true", "false", "null"}

Token(type, value, position) == [type |-> type, value |-> value, position |-> position]

\* end (exclusive, 1-based) of the run of characters satisfying the number
\* or identifier test that starts at i
RECURSIVE number_end(_, _)
number_end(code, i) ==
    IF i <= Len(code) /\ (isdigit(Ch(code, i)) \/ Ch(code, i) = ".")
    THEN number_end(code, i + 1) ELSE i

RECURSIVE identifier_end(_, _)
identifier_end(code, i) ==
    IF i <= Len(code) /\ (isalnum(Ch(code, i)) \/ Ch(code, i) = "_")
    THEN identifier_end(code, i + 1) ELSE i

RECURSIVE line_end(_, _)
line_end(code, i) ==
    IF i <= Len(code) /\ Ch(code, i) # "\n" THEN line_end(code, i + 1) ELSE i

\* int(value) of a run of digits
RECURSIVE int_of(_, _)
int_of(str, acc) ==
    IF str = "" THEN acc ELSE int_of(Tail(str), 10 * acc + DigitVal(Head(str)))

RECURSIVE Pow10(_)
Pow10(k) == IF k = 0 THEN 1 ELSE 10 * Pow10(k - 1)

\* float(value) / int(value) of the text of a NUMBER token; float() raises
\* ValueError when the text holds more than one decimal point
number_value(value) ==
    LET dots == {k \in 1..Len(value) : Ch(value, k) = "."}
    IN  IF dots = {} THEN [err |-> "", val |-> MkInt(int_of(value, 0))]
        ELSE IF Cardinality(dots) > 1 THEN [err |-> "ValueError", val |-> None]
        ELSE LET k    == CHOOSE j \in dots : TRUE
                 ip   == SubSeq(value, 1, k - 1)
                 fp   == SubSeq(value, k + 1, Len(value))
             IN  [err |-> "",
                  val |-> MkFloat(int_of(ip, 0) * Pow10(Len(fp)) + int_of(fp, 0),
                                  Pow10(Len(fp)))]

\* the body of a string literal from position i on: the decoded text and the
\* position after the closing quote
RECURSIVE string_body(_, _, _)
string_body(code, i, string_value) ==
    IF i <= Len(code) /\ Ch(code, i) # "\""
    THEN IF Ch(code, i) = "\\" /\ i + 1 <= Len(code)
         THEN LET escape_char == Ch(code, i + 1)
                  decoded ==
                      CASE escape_char = "n" -> "\n"
                        [] escape_char = "t" -> "\t"
                        [] escape_char = "r" -> "\r"
                        [] escape_char = "\\" -> "\\"
                        [] escape_char = "\"" -> "\""
                        [] escape_char = "'" -> "'"
                        [] OTHER -> Ch(code, i) \o escape_char
              IN  string_body(code, i + 2, string_value \o decoded)
         ELSE string_body(code, i + 1, string_value \o Ch(code, i))
    ELSE [value |-> string_value, next |-> IF i <= Len(code) THEN i + 1 ELSE i]

\* the while loop of tokenize at position i (1-based); token positions are
\* the 0-based offsets of the source
RECURSIVE tokenize_loop(_, _, _)
tokenize_loop(code, i, tokens) ==
    IF i > Len(code)
    THEN [err |-> "", tokens |-> Append(tokens, Token("EOF", None, Len(code)))]
    ELSE IF isspace(Ch(code, i)) THEN tokenize_loop(code, i + 1, tokens)
    ELSE IF isdigit(Ch(code, i))
    THEN LET e == number_end(code, i)
             v == number_value(SubSeq(code, i, e - 1))
         IN  IF v.err # "" THEN [err |-> v.err, tokens |-> tokens]
             ELSE tokenize_loop(code, e, Append(tokens, Token("NUMBER", v.val, i - 1)))
    ELSE IF Ch(code, i) = "\""
    THEN LET b == string_body(code, i + 1, "")
         IN  tokenize_loop(code, b.next,
                           Append(tokens, Token("STRING", MkStr(b.value), i - 1)))
    ELSE IF isalpha(Ch(code, i)) \/ Ch(code, i) = "_"
    THEN LET e == identifier_end(code, i)
             value == SubSeq(code, i, e - 1)
         IN  tokenize_loop(code, e,
                 Append(tokens, Token(IF value \in Keywords THEN "KEYWORD"
                                      ELSE "IDENTIFIER", MkStr(value), i - 1)))
    ELSE IF Ch(code, i) = "#" THEN tokenize_loop(code, line_end(code, i), tokens)
    ELSE IF i < Len(code) /\ Ch(code, i) = "/" /\ Ch(code, i + 1) = "/"
    THEN tokenize_loop(code, line_end(code, i), tokens)
    ELSE IF i < Len(code) /\ (Ch(code, i) \o Ch(code, i + 1)) \in {">=", "<=", "==", "!="}
    THEN tokenize_loop(code, i + 2,
             Append(tokens, Token("OPERATOR", MkStr(Ch(code, i) \o Ch(code, i + 1)), i - 1)))
    ELSE LET single(type) ==
                 tokenize_loop(code, i + 1,
                     Append(tokens, Token(type, MkStr(Ch(code, i)), i - 1)))
         IN  CASE Ch(code, i) = "(" -> single("LPAREN")
               [] Ch(code, i) = ")" -> single("RPAREN")
               [] Ch(code, i) = "[" -> single("LBRACKET")
               [] Ch(code, i) = "]" -> single("RBRACKET")
               [] Ch(code, i) = ":" -> single("COLON")
               [] Ch(code, i) = "," -> single("COMMA")
               [] Ch(code, i) = "." -> single("DOT")
               [] Ch(code, i) \in {"+", "-", "*", "/", ">", "<", "!", "~", "="} ->
                      single("OPERATOR")
               [] OTHER -> [err |-> "SyntaxError", tokens |-> tokens]

tokenize(code) == tokenize_loop(code, 1, <<>>)

\* ------------------------------------------------- Python value semantics
IsNum(v) == v.t \in {"int", "float", "bool"}

\* bool(v)
Truthy(v) ==
    CASE v.t = "none" -> FALSE
      [] v.t \in {"int", "float", "bool"} -> v.n # 0
      [] v.t = "str" -> v.s # ""
      [] OTHER -> TRUE

RECURSIVE NatStr(_)
NatStr(i) ==
    IF i < 10 THEN Digits[i + 1] ELSE NatStr(i \div 10) \o Digits[(i % 10) + 1]

RECURSIVE FracStr(_, _, _)
FracStr(rem, den, k) ==
    IF rem = 0 \/ k = 0 THEN ""
    ELSE Digits[((10 * rem) \div den) + 1] \o FracStr((10 * rem) % den, den, k - 1)

\* str(v), the textual form print() and string concatenation use
PyStr(v) ==
    CASE v.t = "none" -> "None"
      [] v.t = "bool" -> IF v.n = 1 THEN "True" ELSE "False"
      [] v.t = "int" -> (IF v.n < 0 THEN "-" ELSE "") \o NatStr(Abs(v.n))
      [] v.t = "float" ->
             (IF v.n < 0 THEN "-" ELSE "") \o NatStr(Abs(v.n) \div v.d) \o "." \o
             (IF Abs(v.n) % v.d = 0 THEN "0" ELSE FracStr(Abs(v.n) % v.d, v.d, 16))
      [] v.t = "str" -> v.s
      [] OTHER -> "<" \o v.s \o ">"

Ok(v) == [err |-> "", val |-> v]

Err(e) == [err |-> e, val |-> None]

\* the number a op b for numeric operands: int unless an operand is float
NumResult(a, b, num, den) ==
    IF a.t = "float" \/ b.t = "float" THEN MkFloat(num, den) ELSE MkInt(num \div den)

RECURSIVE Repeat(_, _)
Repeat(str, k) == IF k <= 0 THEN "" ELSE str \o Repeat(str, k - 1)

\* left / right with a quotient of integers that is whole kept an integer
PyDiv_whole_is_int(l, r) ==
    IF IsNum(l) /\ IsNum(r)
    THEN IF r.n = 0 THEN Err("ZeroDivisionError")
         ELSE IF l.t # "float" /\ r.t # "float" /\ l.n % r.n = 0
         THEN Ok(MkInt(l.n \div r.n))
         ELSE Ok(MkFloat(l.n * r.d, l.d * r.n))
    ELSE Err("TypeError")

\* left + right as parse_additive computes it
PyAdd(l, r) ==
    IF l.t = "str" \/ r.t = "str" THEN Ok(MkStr(PyStr(l) \o PyStr(r)))
    ELSE IF IsNum(l) /\ IsNum(r)
    THEN Ok(NumResult(l, r, l.n * r.d + r.n * l.d, l.d * r.d))
    ELSE Err("TypeError")

PySub(l, r) ==
    IF IsNum(l) /\ IsNum(r)
    THEN Ok(NumResult(l, r, l.n * r.d - r.n * l.d, l.d * r.d))
    ELSE Err("TypeError")

PyMul(l, r) ==
    IF IsNum(l) /\ IsNum(r) THEN Ok(NumResult(l, r, l.n * r.n, l.d * r.d))
    ELSE IF l.t = "str" /\ r.t \in {"int", "bool"} THEN Ok(MkStr(Repeat(l.s, r.n)))
    ELSE IF r.t = "str" /\ l.t \in {"int", "bool"} THEN Ok(MkStr(Repeat(r.s, l.n)))
    ELSE Err("TypeError")

PyDiv(l, r) ==
    IF IsNum(l) /\ IsNum(r)
    THEN IF r.n = 0 THEN Err("ZeroDivisionError")
         ELSE Ok(MkFloat(l.n * r.d, l.d * r.n))
    ELSE Err("TypeError")

PyNeg(v) ==
    IF IsNum(v) THEN Ok(IF v.t = "float" THEN MkFloat(0 - v.n, v.d) ELSE MkInt(0 - v.n))
    ELSE Err("TypeError")

\* left == right
PyEq(l, r) ==
    IF IsNum(l) /\ IsNum(r) THEN l.n * r.d = r.n * l.d
    ELSE l.t = r.t /\ l.s = r.s

\* the characters of the model in ASCII order
Ascii == <<"\t", "\n", "\r", " ", "!", "\"", "#", "%", "&", "'", "(", ")", "*",
           "+", ",", "-", ".", "/", "0", "1", "2", "3", "4", "5", "6", "7", "8",
           "9", ":", "<", "=", ">", "F", "T", "[", "\\", "]", "_", "a", "b", "c",
           "d", "e", "f", "g", "h", "i", "j", "k", "l", "m", "n", "o", "p", "q",
           "r", "s", "t", "u", "v", "w", "x", "y", "z", "|", "~">>

Ord(c) == CHOOSE k \in 1..Len(Ascii) : Ascii[k] = c

RECURSIVE StrLess(_, _)
StrLess(a, b) ==
    IF b = "" THEN FALSE
    ELSE IF a = "" THEN TRUE
    ELSE IF Head(a) = Head(b) THEN StrLess(Tail(a), Tail(b))
    ELSE Ord(Head(a)) < Ord(Head(b))

\* left < right; the other orderings are derived from it as Python does for
\* numbers and strings
PyLess(l, r) ==
    IF IsNum(l) /\ IsNum(r) THEN Ok(MkBool(l.n * r.d < r.n * l.d))
    ELSE IF l.t = "str" /\ r.t = "str" THEN Ok(MkBool(StrLess(l.s, r.s)))
    ELSE Err("TypeError")

\* re.search(pattern, text) for the patterns of the model: a run of literal
\* characters matches where it occurs in the text, a pattern with an
\* unclosed "[" does not compile (re.error)
re_search(pattern, text) ==
    IF \E k \in 1..Len(pattern) : Ch(pattern, k) = "["
    THEN Err("re.error")
    ELSE Ok(MkBool(\E k \in 0..(Len(text) - Len(pattern)) :
                      SubSeq(text, k + 1, k + Len(pattern)) = pattern))

\* left op right of parse_comparison
PyCompare(op, l, r) ==
    CASE op = "<" -> PyLess(l, r)
      [] op = ">" -> PyLess(r, l)
      [] op = "<=" -> LET x == PyLess(r, l)
                      IN  IF x.err # "" THEN x ELSE Ok(MkBool(~Truthy(x.val)))
      [] op = ">=" -> LET x == PyLess(l, r)
                      IN  IF x.err # "" THEN x ELSE Ok(MkBool(~Truthy(x.val)))
      [] op = "==" -> Ok(MkBool(PyEq(l, r)))
      [] op = "!=" -> Ok(MkBool(~PyEq(l, r)))
      [] op = "~"  -> IF r.t # "str" THEN Err("TypeError")
                      ELSE LET m == re_search(r.s, IF l.t = "str" THEN l.s ELSE PyStr(l))
                           IN  IF m.err # "" THEN Err("ValueError") ELSE m

\* an index or slice bound usable on a str: int, bool, or None in a slice
IsIndex(v) == v.t \in {"int", "bool"}

\* obj[index]
PyIndex(obj, index) ==
    IF ~IsIndex(index) THEN Err("TypeError")
    ELSE LET len == Len(obj.s)
             k   == IF index.n < 0 THEN index.n + len ELSE index.n
         IN  IF k < 0 \/ k >= len THEN Err("IndexError") ELSE Ok(MkStr(Ch(obj.s, k + 1)))

\* obj[start:end]; None stands for a missing bound
PySlice(obj, start, end) ==
    IF (start.t # "none" /\ ~IsIndex(start)) \/ (end.t # "none" /\ ~IsIndex(end))
    THEN Err("TypeError")
    ELSE LET len == Len(obj.s)
             clamp(b, dflt) ==
                 IF b.t = "none" THEN dflt
                 ELSE IF b.n < 0 THEN (IF b.n + len < 0 THEN 0 ELSE b.n + len)
                 ELSE IF b.n > len THEN len ELSE b.n
         IN  Ok(MkStr(SubSeq(obj.s, clamp(start, 0) + 1, clamp(end, len))))

\* hasattr(obj, '__getitem__'): of the values of the model only str has it
subscriptable(obj) == obj.t = "str"

\* hasattr / getattr / setattr on a host object; host maps the identity of an
\* object to its attributes
hasattr(host, obj, prop) == obj.t = "obj" /\ prop \in DOMAIN host[obj.s]

getattr(host, obj, prop) == host[obj.s][prop]

\* ------------------------------------------------------ parser / evaluator
\* The parser state p is the part of the instance a statement reads and
\* writes while it is parsed: [idx |-> current_token_index, variables, host,
\* out (what print has written), err (the exception raised, "" for none),
\* val (the value the last parse_* returned)], and two histories of what the
\* statement did: resolved (the names looked up in self.variables) and bound
\* (the assignments self.variables[name] = value, in order).

current_token(tokens, idx) ==
    IF idx < Len(tokens) THEN tokens[idx + 1] ELSE tokens[Len(tokens)]

\* consume_token without the test for the last token
consume_token_unbounded(tokens, idx) == idx + 1

consume_token(tokens, idx) == IF idx < Len(tokens) - 1 THEN idx + 1 ELSE idx

cur(tokens, p) == current_token(tokens, p.idx)

adv(tokens, p) == [p EXCEPT !.idx = consume_token(tokens, p.idx)]

raise(p, e) == [p EXCEPT !.err = e, !.val = None]

ret(p, v) == [p EXCEPT !.val = v]

\* history: name has been looked up in self.variables
lookup(p, name) == [p EXCEPT !.resolved = @ \cup {name}]

\* return the value of a Python operation, or raise what it raised
apply(p, res) == IF res.err # "" THEN raise(p, res.err) ELSE ret(p, res.val)

IsKw(tok, word) == tok.type = "KEYWORD" /\ tok.value.s = word

IsOp(tok, ops) == tok.type = "OPERATOR" /\ tok.value.s \in ops

\* the look-ahead of _is_assignment after the identifier: skip the property
\* chain and test for '='
RECURSIVE is_assignment_chain(_, _)
is_assignment_chain(tokens, idx) ==
    IF current_token(tokens, idx).type = "DOT"
    THEN LET j == consume_token(tokens, idx)
         IN  IF current_token(tokens, j).type # "IDENTIFIER" THEN FALSE
             ELSE is_assignment_chain(tokens, consume_token(tokens, j))
    ELSE IsOp(current_token(tokens, idx), {"="})

\* the saved index is restored in the finally clause: only the answer is kept
_is_assignment(tokens, idx) ==
    /\ current_token(tokens, idx).type = "IDENTIFIER"
    /\ is_assignment_chain(tokens, consume_token(tokens, idx))

\* the property-chain loop of _parse_assignment_expression
RECURSIVE assignment_chain(_, _, _)
assignment_chain(tokens, p, property_chain) ==
    IF cur(tokens, p).type = "DOT"
    THEN LET q == adv(tokens, p)
         IN  IF cur(tokens, q).type # "IDENTIFIER"
             THEN [p |-> raise(q, "SyntaxError"), property_chain |-> property_chain]
             ELSE assignment_chain(tokens, adv(tokens, q),
                                   Append(property_chain, cur(tokens, q).value.s))
    ELSE [p |-> p, property_chain |-> property_chain]

\* setattr(obj, prop, value): only a host object takes new attributes
setattr(host, obj, prop, value) ==
    IF obj.t # "obj" THEN [err |-> "AttributeError", host |-> host]
    ELSE [err |-> "",
          host |-> [host EXCEPT ![obj.s] =
                       [a \in (DOMAIN @) \cup {prop} |-> IF a = prop THEN value ELSE @[a]]]]

\* _perform_assignment that sets the final property on the root object
\* without walking the chain
_perform_assignment_on_root(host, obj, property_chain, value) ==
    setattr(host, obj, property_chain[Len(property_chain)], value)

RECURSIVE _perform_assignment(_, _, _, _)
_perform_assignment(host, obj, property_chain, value) ==
    IF Len(property_chain) > 1
    THEN IF ~hasattr(host, obj, Head(property_chain))
         THEN [err |-> "AttributeError", host |-> host]
         ELSE _perform_assignment(host, getattr(host, obj, Head(property_chain)),
                                  Tail(property_chain), value)
    ELSE setattr(host, obj, Head(property_chain), value)

\* len(x)
PyLen(v) == IF v.t = "str" THEN Ok(MkInt(Len(v.s))) ELSE Err("TypeError")

\* self.method(): the bound-method call by which the methods of the evaluator
\* reach one another; the receiver's state is the parser state p
RECURSIVE self(_, _, _)

RECURSIVE parse_expression(_, _), parse_conditional_expression(_, _),
          _parse_assignment_expression(_, _), parse_or_expression(_, _),
          or_loop(_, _), parse_and_expression(_, _), and_loop(_, _),
          parse_comparison(_, _), comparison_loop(_, _), parse_additive(_, _),
          additive_loop(_, _), parse_multiplicative(_, _),
          multiplicative_loop(_, _), parse_unary(_, _), parse_primary(_, _),
          property_chain_loop(_, _), indexing_loop(_, _),
          parse_indexing_or_slicing(_, _), function_args(_, _, _),
          parse_function_call(_, _, _), parse_if_statement(_, _)

parse_assignment(tokens, p) ==
    IF _is_assignment(tokens, p.idx)
    THEN self("_parse_assignment_expression", tokens, p)
    ELSE self("parse_conditional_expression", tokens, p)

parse_expression(tokens, p) == self("parse_assignment", tokens, p)

parse_conditional_expression(tokens, p) ==
    IF IsKw(cur(tokens, p), "if")
    THEN self("parse_if_statement", tokens, p)
    ELSE self("parse_or_expression", tokens, p)

\* _parse_assignment_expression binding the name, to None, although the
\* right-hand side has raised
_parse_assignment_expression_binds_despite_error(tokens, p) ==
    IF cur(tokens, p).type # "IDENTIFIER" THEN raise(p, "SyntaxError")
    ELSE
    LET identifier_name == cur(tokens, p).value.s
        c == assignment_chain(tokens, adv(tokens, p), <<>>)
    IN  IF c.p.err # "" THEN c.p
        ELSE IF ~IsOp(cur(tokens, c.p), {"="}) THEN raise(c.p, "SyntaxError")
        ELSE
        LET v == self("parse_conditional_expression", tokens, adv(tokens, c.p))
        IN  IF v.err # "" /\ c.property_chain # <<>> THEN v
            ELSE IF v.err # ""
            THEN [v EXCEPT !.variables =
                     [a \in (DOMAIN @) \cup {identifier_name} |->
                         IF a = identifier_name THEN None ELSE @[a]]]
            ELSE IF c.property_chain = <<>>
            THEN [v EXCEPT !.variables =
                     [a \in (DOMAIN @) \cup {identifier_name} |->
                         IF a = identifier_name THEN v.val ELSE @[a]],
                           !.bound = Append(@, <<identifier_name, v.val>>)]
            ELSE IF identifier_name \notin DOMAIN v.variables
            THEN raise(lookup(v, identifier_name), "NameError")
            ELSE LET r == _perform_assignment(v.host, v.variables[identifier_name],
                                              c.property_chain, v.val)
                 IN  IF r.err # "" THEN raise(lookup(v, identifier_name), r.err)
                     ELSE [lookup(v, identifier_name) EXCEPT !.host = r.host]

_parse_assignment_expression(tokens, p) ==
    IF cur(tokens, p).type # "IDENTIFIER" THEN raise(p, "SyntaxError")
    ELSE
    LET identifier_name == cur(tokens, p).value.s
        c == assignment_chain(tokens, adv(tokens, p), <<>>)
    IN  IF c.p.err # "" THEN c.p
        ELSE IF ~IsOp(cur(tokens, c.p), {"="}) THEN raise(c.p, "SyntaxError")
        ELSE
        LET v == self("parse_conditional_expression", tokens, adv(tokens, c.p))
        IN  IF v.err # "" THEN v
            ELSE IF c.property_chain = <<>>
            THEN [v EXCEPT !.variables =
                     [a \in (DOMAIN @) \cup {identifier_name} |->
                         IF a = identifier_name THEN v.val ELSE @[a]],
                           !.bound = Append(@, <<identifier_name, v.val>>)]
            ELSE IF identifier_name \notin DOMAIN v.variables
            THEN raise(lookup(v, identifier_name), "NameError")
            ELSE LET r == _perform_assignment(v.host, v.variables[identifier_name],
                                              c.property_chain, v.val)
                 IN  IF r.err # "" THEN raise(lookup(v, identifier_name), r.err)
                     ELSE [lookup(v, identifier_name) EXCEPT !.host = r.host]

\* or_loop leaving the right operand without effect when the left operand
\* alone decides
or_loop_short_circuit(tokens, p) ==
    IF IsKw(cur(tokens, p), "or")
    THEN LET r == self("parse_and_expression", tokens, adv(tokens, p))
         IN  IF r.err # "" THEN r
             ELSE or_loop(tokens,
                      IF Truthy(p.val)
                      THEN [r EXCEPT !.variables = p.variables, !.host = p.host,
                                     !.out = p.out, !.val = p.val]
                      ELSE r)
    ELSE p

\* left or right / left and right of Python: the operand, not a bool
or_loop(tokens, p) ==
    IF IsKw(cur(tokens, p), "or")
    THEN LET r == self("parse_and_expression", tokens, adv(tokens, p))
         IN  IF r.err # "" THEN r
             ELSE or_loop(tokens, ret(r, IF Truthy(p.val) THEN p.val ELSE r.val))
    ELSE p

parse_or_expression(tokens, p) ==
    LET left == self("parse_and_expression", tokens, p)
    IN  IF left.err # "" THEN left ELSE or_loop(tokens, left)

and_loop(tokens, p) ==
    IF IsKw(cur(tokens, p), "and")
    THEN LET r == self("parse_comparison", tokens, adv(tokens, p))
         IN  IF r.err # "" THEN r
             ELSE and_loop(tokens, ret(r, IF Truthy(p.val) THEN r.val ELSE p.val))
    ELSE p

parse_and_expression(tokens, p) ==
    LET left == self("parse_comparison", tokens, p)
    IN  IF left.err # "" THEN left ELSE and_loop(tokens, left)

comparison_loop(tokens, p) ==
    IF IsOp(cur(tokens, p), {">", "<", ">=", "<=", "==", "!=", "~"})
    THEN LET op == cur(tokens, p).value.s
             r  == self("parse_additive", tokens, adv(tokens, p))
         IN  IF r.err # "" THEN r
             ELSE LET x == apply(r, PyCompare(op, p.val, r.val))
                  IN  IF x.err # "" THEN x ELSE comparison_loop(tokens, x)
    ELSE p

parse_comparison(tokens, p) ==
    LET left == self("parse_additive", tokens, p)
    IN  IF left.err # "" THEN left ELSE comparison_loop(tokens, left)

additive_loop(tokens, p) ==
    IF IsOp(cur(tokens, p), {"+", "-"})
    THEN LET op == cur(tokens, p).value.s
             r  == self("parse_multiplicative", tokens, adv(tokens, p))
         IN  IF r.err # "" THEN r
             ELSE LET x == apply(r, IF op = "+" THEN PyAdd(p.val, r.val)
                                    ELSE PySub(p.val, r.val))
                  IN  IF x.err # "" THEN x ELSE additive_loop(tokens, x)
    ELSE p

parse_additive(tokens, p) ==
    LET left == self("parse_multiplicative", tokens, p)
    IN  IF left.err # "" THEN left ELSE additive_loop(tokens, left)

multiplicative_loop(tokens, p) ==
    IF IsOp(cur(tokens, p), {"*", "/"})
    THEN LET op == cur(tokens, p).value.s
             r  == self("parse_unary", tokens, adv(tokens, p))
         IN  IF r.err # "" THEN r
             ELSE LET x == apply(r, IF op = "*" THEN PyMul(p.val, r.val)
                                    ELSE PyDiv(p.val, r.val))
                  IN  IF x.err # "" THEN x ELSE multiplicative_loop(tokens, x)
    ELSE p

parse_multiplicative(tokens, p) ==
    LET left == self("parse_unary", tokens, p)
    IN  IF left.err # "" THEN left ELSE multiplicative_loop(tokens, left)

\* parse_unary with not taking a whole comparison as its operand, as
\* Python's not does
parse_unary_not_of_comparison(tokens, p) ==
    IF IsOp(cur(tokens, p), {"-"})
    THEN LET r == self("parse_unary", tokens, adv(tokens, p))
         IN  IF r.err # "" THEN r ELSE apply(r, PyNeg(r.val))
    ELSE IF IsKw(cur(tokens, p), "not")
    THEN LET r == self("parse_comparison", tokens, adv(tokens, p))
         IN  IF r.err # "" THEN r ELSE ret(r, MkBool(~Truthy(r.val)))
    ELSE self("parse_primary", tokens, p)

parse_unary(tokens, p) ==
    IF IsOp(cur(tokens, p), {"-"})
    THEN LET r == self("parse_unary", tokens, adv(tokens, p))
         IN  IF r.err # "" THEN r ELSE apply(r, PyNeg(r.val))
    ELSE IF IsKw(cur(tokens, p), "not")
    THEN LET r == self("parse_unary", tokens, adv(tokens, p))
         IN  IF r.err # "" THEN r ELSE ret(r, MkBool(~Truthy(r.val)))
    ELSE self("parse_primary", tokens, p)

\* the property-chain loop of parse_primary; p.val is the object reached
property_chain_loop(tokens, p) ==
    IF cur(tokens, p).type = "DOT"
    THEN LET q == adv(tokens, p)
         IN  IF cur(tokens, q).type # "IDENTIFIER" THEN raise(q, "SyntaxError")
             ELSE LET property_name == cur(tokens, q).value.s
                      n == adv(tokens, q)
                  IN  IF hasattr(n.host, p.val, property_name)
                      THEN property_chain_loop(tokens,
                               ret(n, getattr(n.host, p.val, property_name)))
                      ELSE raise(n, "AttributeError")
    ELSE p

indexing_loop(tokens, p) ==
    IF cur(tokens, p).type = "LBRACKET"
    THEN LET r == self("parse_indexing_or_slicing", tokens, p)
         IN  IF r.err # "" THEN r ELSE indexing_loop(tokens, r)
    ELSE p

parse_primary(tokens, p) ==
    LET token == cur(tokens, p)
        result ==
          CASE token.type \in {"NUMBER", "STRING"} -> ret(adv(tokens, p), token.value)
            [] token.type = "KEYWORD" ->
                 IF token.value.s \in {"True", "true"}
                 THEN ret(adv(tokens, p), MkBool(TRUE))
                 ELSE IF token.value.s \in {"False", "false"}
                 THEN ret(adv(tokens, p), MkBool(FALSE))
                 ELSE IF token.value.s = "null" THEN ret(adv(tokens, p), None)
                 ELSE IF token.value.s = "if" THEN self("parse_if_statement", tokens, p)
                 ELSE raise(p, "SyntaxError")
            [] token.type = "IDENTIFIER" ->
                 LET name == token.value.s
                     q    == adv(tokens, p)
                 IN  IF cur(tokens, q).type = "LPAREN"
                     THEN parse_function_call(tokens, q, name)
                     ELSE IF name \in DOMAIN q.variables
                     THEN property_chain_loop(tokens,
                              ret(lookup(q, name), q.variables[name]))
                     ELSE raise(lookup(q, name), "NameError")
            [] token.type = "LPAREN" ->
                 LET r == self("parse_expression", tokens, adv(tokens, p))
                 IN  IF r.err # "" THEN r
                     ELSE IF cur(tokens, r).type = "RPAREN" THEN adv(tokens, r)
                     ELSE r
            [] OTHER -> raise(p, "SyntaxError")
    IN  IF result.err # "" THEN result ELSE indexing_loop(tokens, result)

\* p.val is the object that is indexed
parse_indexing_or_slicing(tokens, p) ==
    LET obj == p.val
        q   == adv(tokens, p)
        closing(e, res, missing) ==
            IF cur(tokens, e).type = "RBRACKET"
            THEN apply(adv(tokens, e), res) ELSE raise(e, missing)
    IN  IF ~subscriptable(obj) THEN raise(q, "TypeError")
        ELSE IF cur(tokens, q).type = "COLON"
        THEN LET q2 == adv(tokens, q)
             IN  IF cur(tokens, q2).type = "RBRACKET"
                 THEN apply(adv(tokens, q2), PySlice(obj, None, None))
                 ELSE LET e == self("parse_or_expression", tokens, q2)
                      IN  IF e.err # "" THEN e
                          ELSE closing(e, PySlice(obj, None, e.val), "SyntaxError")
        ELSE LET f == self("parse_or_expression", tokens, q)
             IN  IF f.err # "" THEN f
                 ELSE IF cur(tokens, f).type = "COLON"
                 THEN LET f2 == adv(tokens, f)
                      IN  IF cur(tokens, f2).type = "RBRACKET"
                          THEN apply(adv(tokens, f2), PySlice(obj, f.val, None))
                          ELSE LET e == self("parse_or_expression", tokens, f2)
                               IN  IF e.err # "" THEN e
                                   ELSE closing(e, PySlice(obj, f.val, e.val),
                                                "SyntaxError")
                 ELSE closing(f, PyIndex(obj, f.val), "SyntaxError")

\* the argument loop of parse_function_call
function_args(tokens, p, args) ==
    IF cur(tokens, p).type # "RPAREN"
    THEN LET a == self("parse_expression", tokens, p)
         IN  IF a.err # "" THEN [p |-> a, args |-> args]
             ELSE function_args(tokens,
                      IF cur(tokens, a).type = "COMMA" THEN adv(tokens, a) ELSE a,
                      Append(args, a.val))
    ELSE [p |-> p, args |-> args]

\* parse_function_call whose log returns the text it has printed
parse_function_call_log_returns_text(tokens, p, function_name) ==
    LET r == function_args(tokens, adv(tokens, p), <<>>)
    IN  IF r.p.err # "" THEN r.p
        ELSE LET q == adv(tokens, r.p)
             IN  IF function_name \notin {"len", "log"} THEN raise(q, "NameError")
                 ELSE IF Len(r.args) # 1 THEN raise(q, "TypeError")
                 ELSE IF function_name = "len" THEN apply(q, PyLen(r.args[1]))
                 ELSE [q EXCEPT !.out = Append(@, PyStr(r.args[1])),
                                !.val = MkStr(PyStr(r.args[1]))]

\* parse_function_call that rejects an unknown name before it evaluates the
\* arguments
parse_function_call_name_first(tokens, p, function_name) ==
    IF function_name \notin {"len", "log"} THEN raise(p, "NameError")
    ELSE LET r == function_args(tokens, adv(tokens, p), <<>>)
         IN  IF r.p.err # "" THEN r.p
             ELSE LET q == adv(tokens, r.p)
                  IN  IF Len(r.args) # 1 THEN raise(q, "TypeError")
                      ELSE IF function_name = "len" THEN apply(q, PyLen(r.args[1]))
                      ELSE [q EXCEPT !.out = Append(@, PyStr(r.args[1])),
                                     !.val = r.args[1]]

\* p is at the '(' that follows function_name
parse_function_call(tokens, p, function_name) ==
    LET r == function_args(tokens, adv(tokens, p), <<>>)
    IN  IF r.p.err # "" THEN r.p
        ELSE LET q == adv(tokens, r.p)
             IN  IF function_name = "len"
                 THEN IF Len(r.args) # 1 THEN raise(q, "TypeError")
                      ELSE apply(q, PyLen(r.args[1]))
                 ELSE IF function_name = "log"
                 THEN IF Len(r.args) # 1 THEN raise(q, "TypeError")
                      ELSE [q EXCEPT !.out = Append(@, PyStr(r.args[1])),
                                     !.val = r.args[1]]
                 ELSE raise(q, "NameError")

\* parse_if_statement with the value of the then branch kept as the value of
\* a missing else branch
parse_if_statement_no_else_keeps_then(tokens, p) ==
    LET condition == self("parse_expression", tokens, adv(tokens, p))
    IN  IF condition.err # "" THEN condition
        ELSE IF ~IsKw(cur(tokens, condition), "then")
        THEN raise(condition, "SyntaxError")
        ELSE
        LET q == adv(tokens, condition)
            if_value ==
                IF cur(tokens, q).type # "EOF" /\ ~IsKw(cur(tokens, q), "else")
                THEN self("parse_expression", tokens, q) ELSE ret(q, None)
        IN  IF if_value.err # "" THEN if_value
            ELSE
            LET else_value ==
                    IF IsKw(cur(tokens, if_value), "else")
                    THEN LET q2 == adv(tokens, if_value)
                         IN  IF cur(tokens, q2).type # "EOF"
                             THEN self("parse_expression", tokens, q2) ELSE ret(q2, None)
                    ELSE ret(if_value, if_value.val)
            IN  IF else_value.err # "" THEN else_value
                ELSE ret(else_value, IF Truthy(condition.val) THEN if_value.val
                                     ELSE else_value.val)

parse_if_statement(tokens, p) ==
    LET condition == self("parse_expression", tokens, adv(tokens, p))
    IN  IF condition.err # "" THEN condition
        ELSE IF ~IsKw(cur(tokens, condition), "then")
        THEN raise(condition, "SyntaxError")
        ELSE
        LET q == adv(tokens, condition)
            if_value ==
                IF cur(tokens, q).type # "EOF" /\ ~IsKw(cur(tokens, q), "else")
                THEN self("parse_expression", tokens, q) ELSE ret(q, None)
        IN  IF if_value.err # "" THEN if_value
            ELSE
            LET else_value ==
                    IF IsKw(cur(tokens, if_value), "else")
                    THEN LET q2 == adv(tokens, if_value)
                         IN  IF cur(tokens, q2).type # "EOF"
                             THEN self("parse_expression", tokens, q2) ELSE ret(q2, None)
                    ELSE ret(if_value, None)
            IN  IF else_value.err # "" THEN else_value
                ELSE ret(else_value, IF Truthy(condition.val) THEN if_value.val
                                     ELSE else_value.val)

parse_statement(tokens, p) ==
    IF IsKw(cur(tokens, p), "if")
    THEN self("parse_if_statement", tokens, p)
    ELSE self("parse_expression", tokens, p)

\* ---------------------------------------------------------------- validator
\* The _verify_* methods take and return the same parser state as the
\* parse_* methods; they move the cursor and raise, nothing else.
RECURSIVE _verify_expression_syntax(_, _), _verify_or_expression_syntax(_, _),
          verify_or_loop(_, _), _verify_and_expression_syntax(_, _),
          verify_and_loop(_, _), _verify_equality_expression_syntax(_, _),
          verify_equality_loop(_, _), _verify_comparison_expression_syntax(_, _),
          verify_comparison_loop(_, _), _verify_regex_expression_syntax(_, _),
          verify_regex_loop(_, _), _verify_additive_expression_syntax(_, _),
          verify_additive_loop(_, _), _verify_multiplicative_expression_syntax(_, _),
          verify_multiplicative_loop(_, _), _verify_unary_expression_syntax(_, _),
          _verify_primary_syntax(_, _), verify_property_chain_loop(_, _),
          verify_indexing_loop(_, _), _verify_function_call_syntax(_, _),
          verify_argument_loop(_, _), _verify_if_statement_syntax(_, _),
          _verify_indexing_syntax(_, _)

\* _verify_statement_syntax handing the statement to the evaluating parser
_verify_statement_syntax_evaluates(tokens, p) == self("parse_statement", tokens, p)

_verify_statement_syntax(tokens, p) ==
    LET r == IF /\ p.idx + 2 < Len(tokens)
                /\ tokens[p.idx + 1].type = "IDENTIFIER"
                /\ IsOp(tokens[p.idx + 2], {"="})
             THEN self("_verify_expression_syntax", tokens, adv(tokens, adv(tokens, p)))
             ELSE self("_verify_expression_syntax", tokens, p)
    IN  IF r.err # "" THEN r
        ELSE IF cur(tokens, r).type # "EOF" THEN raise(r, "SyntaxError")
        ELSE r

_verify_expression_syntax(tokens, p) == self("_verify_or_expression_syntax", tokens, p)

verify_or_loop(tokens, p) ==
    IF p.err = "" /\ IsKw(cur(tokens, p), "or")
    THEN verify_or_loop(tokens,
             self("_verify_and_expression_syntax", tokens, adv(tokens, p)))
    ELSE p

_verify_or_expression_syntax(tokens, p) ==
    verify_or_loop(tokens, self("_verify_and_expression_syntax", tokens, p))

verify_and_loop(tokens, p) ==
    IF p.err = "" /\ IsKw(cur(tokens, p), "and")
    THEN verify_and_loop(tokens,
             self("_verify_equality_expression_syntax", tokens, adv(tokens, p)))
    ELSE p

_verify_and_expression_syntax(tokens, p) ==
    verify_and_loop(tokens, self("_verify_equality_expression_syntax", tokens, p))

verify_equality_loop(tokens, p) ==
    IF p.err = "" /\ IsOp(cur(tokens, p), {"==", "!="})
    THEN verify_equality_loop(tokens,
             self("_verify_comparison_expression_syntax", tokens, adv(tokens, p)))
    ELSE p

_verify_equality_expression_syntax(tokens, p) ==
    verify_equality_loop(tokens, self("_verify_comparison_expression_syntax", tokens, p))

verify_comparison_loop(tokens, p) ==
    IF p.err = "" /\ IsOp(cur(tokens, p), {"<", ">", "<=", ">="})
    THEN verify_comparison_loop(tokens,
             self("_verify_regex_expression_syntax", tokens, adv(tokens, p)))
    ELSE p

_verify_comparison_expression_syntax(tokens, p) ==
    verify_comparison_loop(tokens, self("_verify_regex_expression_syntax", tokens, p))

verify_regex_loop(tokens, p) ==
    IF p.err = "" /\ IsOp(cur(tokens, p), {"~"})
    THEN verify_regex_loop(tokens,
             self("_verify_additive_expression_syntax", tokens, adv(tokens, p)))
    ELSE p

_verify_regex_expression_syntax(tokens, p) ==
    verify_regex_loop(tokens, self("_verify_additive_expression_syntax", tokens, p))

verify_additive_loop(tokens, p) ==
    IF p.err = "" /\ IsOp(cur(tokens, p), {"+", "-"})
    THEN verify_additive_loop(tokens,
             self("_verify_multiplicative_expression_syntax", tokens, adv(tokens, p)))
    ELSE p

_verify_additive_expression_syntax(tokens, p) ==
    verify_additive_loop(tokens,
        self("_verify_multiplicative_expression_syntax", tokens, p))

verify_multiplicative_loop(tokens, p) ==
    IF p.err = "" /\ IsOp(cur(tokens, p), {"*", "/", "%"})
    THEN verify_multiplicative_loop(tokens,
             self("_verify_unary_expression_syntax", tokens, adv(tokens, p)))
    ELSE p

_verify_multiplicative_expression_syntax(tokens, p) ==
    verify_multiplicative_loop(tokens, self("_verify_unary_expression_syntax", tokens, p))

_verify_unary_expression_syntax(tokens, p) ==
    IF IsKw(cur(tokens, p), "not")
    THEN self("_verify_unary_expression_syntax", tokens, adv(tokens, p))
    ELSE IF IsOp(cur(tokens, p), {"+", "-"})
    THEN IF p.idx + 1 >= Len(tokens) \/ tokens[p.idx + 2].type = "EOF"
         THEN raise(p, "SyntaxError")
         ELSE self("_verify_unary_expression_syntax", tokens, adv(tokens, p))
    ELSE self("_verify_primary_syntax", tokens, p)

verify_property_chain_loop(tokens, p) ==
    IF cur(tokens, p).type = "DOT"
    THEN LET q == adv(tokens, p)
         IN  IF cur(tokens, q).type # "IDENTIFIER" THEN raise(q, "SyntaxError")
             ELSE verify_property_chain_loop(tokens, adv(tokens, q))
    ELSE p

verify_indexing_loop(tokens, p) ==
    IF p.err = "" /\ cur(tokens, p).type = "LBRACKET"
    THEN verify_indexing_loop(tokens, self("_verify_indexing_syntax", tokens, p))
    ELSE p

_verify_primary_syntax(tokens, p) ==
    LET token == cur(tokens, p)
        result ==
          CASE token.type \in {"NUMBER", "STRING"} -> adv(tokens, p)
            [] token.type = "KEYWORD" ->
                 IF token.value.s \in {"True", "true", "False", "false", "null"}
                 THEN adv(tokens, p)
                 ELSE IF token.value.s = "if"
                 THEN self("_verify_if_statement_syntax", tokens, p)
                 ELSE raise(p, "SyntaxError")
            [] token.type = "IDENTIFIER" ->
                 LET q == adv(tokens, p)
                 IN  IF cur(tokens, q).type = "LPAREN"
                     THEN self("_verify_function_call_syntax", tokens, q)
                     ELSE verify_property_chain_loop(tokens, q)
            [] token.type = "LPAREN" ->
                 LET r == self("_verify_expression_syntax", tokens, adv(tokens, p))
                 IN  IF r.err # "" THEN r
                     ELSE IF cur(tokens, r).type = "RPAREN" THEN adv(tokens, r)
                     ELSE raise(r, "SyntaxError")
            [] OTHER -> raise(p, "SyntaxError")
    IN  verify_indexing_loop(tokens, result)

\* the while loop over the arguments after the first one
verify_argument_loop(tokens, p) ==
    IF p.err = "" /\ cur(tokens, p).type = "COMMA"
    THEN LET q == adv(tokens, p)
         IN  IF cur(tokens, q).type = "RPAREN" THEN raise(q, "SyntaxError")
             ELSE verify_argument_loop(tokens,
                      self("_verify_expression_syntax", tokens, q))
    ELSE p

_verify_function_call_syntax(tokens, p) ==
    LET q == adv(tokens, p)
        r == IF cur(tokens, q).type # "RPAREN"
             THEN verify_argument_loop(tokens,
                      self("_verify_expression_syntax", tokens, q))
             ELSE q
    IN  IF r.err # "" THEN r
        ELSE IF cur(tokens, r).type = "RPAREN" THEN adv(tokens, r)
        ELSE raise(r, "SyntaxError")

_verify_if_statement_syntax(tokens, p) ==
    LET c == self("_verify_expression_syntax", tokens, adv(tokens, p))
    IN  IF c.err # "" THEN c
        ELSE IF ~IsKw(cur(tokens, c), "then") THEN raise(c, "SyntaxError")
        ELSE LET q == adv(tokens, c)
             IN  IF cur(tokens, q).type = "EOF" THEN raise(q, "SyntaxError")
                 ELSE LET t == self("_verify_expression_syntax", tokens, q)
                      IN  IF t.err # "" THEN t
                          ELSE IF IsKw(cur(tokens, t), "else")
                          THEN LET q2 == adv(tokens, t)
                               IN  IF cur(tokens, q2).type = "EOF"
                                   THEN raise(q2, "SyntaxError")
                                   ELSE self("_verify_expression_syntax", tokens, q2)
                          ELSE t

_verify_indexing_syntax(tokens, p) ==
    LET f == self("_verify_expression_syntax", tokens, adv(tokens, p))
    IN  IF f.err # "" THEN f
        ELSE LET e == IF cur(tokens, f).type = "COLON"
                      THEN LET q == adv(tokens, f)
                           IN  IF cur(tokens, q).type # "RBRACKET"
                               THEN self("_verify_expression_syntax", tokens, q) ELSE q
                      ELSE f
             IN  IF e.err # "" THEN e
                 ELSE IF cur(tokens, e).type = "RBRACKET" THEN adv(tokens, e)
                 ELSE raise(e, "SyntaxError")

self(method, tokens, p) ==
    CASE method = "parse_assignment" ->
             parse_assignment(tokens, p)
      [] method = "parse_expression" ->
             parse_expression(tokens, p)
      [] method = "parse_conditional_expression" ->
             parse_conditional_expression(tokens, p)
      [] method = "_parse_assignment_expression" ->
             _parse_assignment_expression(tokens, p)
      [] method = "parse_or_expression" ->
             parse_or_expression(tokens, p)
      [] method = "parse_and_expression" ->
             parse_and_expression(tokens, p)
      [] method = "parse_comparison" ->
             parse_comparison(tokens, p)
      [] method = "parse_additive" ->
             parse_additive(tokens, p)
      [] method = "parse_multiplicative" ->
             parse_multiplicative(tokens, p)
      [] method = "parse_unary" ->
             parse_unary(tokens, p)
      [] method = "parse_primary" ->
             parse_primary(tokens, p)
      [] method = "parse_indexing_or_slicing" ->
             parse_indexing_or_slicing(tokens, p)
      [] method = "parse_if_statement" ->
             parse_if_statement(tokens, p)
      [] method = "parse_statement" ->
             parse_statement(tokens, p)
      [] method = "_verify_statement_syntax" ->
             _verify_statement_syntax(tokens, p)
      [] method = "_verify_expression_syntax" ->
             _verify_expression_syntax(tokens, p)
      [] method = "_verify_or_expression_syntax" ->
             _verify_or_expression_syntax(tokens, p)
      [] method = "_verify_and_expression_syntax" ->
             _verify_and_expression_syntax(tokens, p)
      [] method = "_verify_equality_expression_syntax" ->
             _verify_equality_expression_syntax(tokens, p)
      [] method = "_verify_comparison_expression_syntax" ->
             _verify_comparison_expression_syntax(tokens, p)
      [] method = "_verify_regex_expression_syntax" ->
             _verify_regex_expression_syntax(tokens, p)
      [] method = "_verify_additive_expression_syntax" ->
             _verify_additive_expression_syntax(tokens, p)
      [] method = "_verify_multiplicative_expression_syntax" ->
             _verify_multiplicative_expression_syntax(tokens, p)
      [] method = "_verify_unary_expression_syntax" ->
             _verify_unary_expression_syntax(tokens, p)
      [] method = "_verify_primary_syntax" ->
             _verify_primary_syntax(tokens, p)
      [] method = "_verify_function_call_syntax" ->
             _verify_function_call_syntax(tokens, p)
      [] method = "_verify_if_statement_syntax" ->
             _verify_if_statement_syntax(tokens, p)
      [] method = "_verify_indexing_syntax" ->
             _verify_indexing_syntax(tokens, p)

\* ------------------------------------------------------------ the instance
VARIABLES
    tokens,               \* self.tokens
    current_token_index,  \* self.current_token_index
    variables,            \* self.variables, the Environment
    host,                 \* the attributes of the host objects
    out,                  \* what print() has written, one entry per call
    pc,                   \* "idle", or the position inside evaluate / verify
    frame,                \* the locals of the running evaluate / verify call
    result,               \* how the last call ended
    ncalls,               \* calls made so far
    resolved,             \* history: names looked up during the current call
    given,                \* history: the value last given to each name by an
                          \* assignment statement or by evaluate's variables
    pre,                  \* history: the call's arguments and the instance
                          \* when the call began
    trace,                \* history of the current evaluate call: the
                          \* statements tokenized, the values of the statements
                          \* completed, the instance after the last of them
    clock,                \* the host clock, what datetime.datetime.now() reads
    running,              \* the unit of work that has the processor, 1 or 2
    parked                \* the instance and the call of the other unit of work

vars == <<tokens, current_token_index, variables, host, out, pc, frame, result,
          ncalls, resolved, given, pre, trace, clock, running, parked>>

\* what a step of an evaluator instance leaves alone
world == <<clock, running, parked>>

\* dict(...): the empty mapping and dict.update(other)
EmptyDict == [a \in {} |-> None]

\* update with the Environment replaced by the variables argument
update_replaces(dict, other) == other

update(dict, other) ==
    [a \in (DOMAIN dict) \cup (DOMAIN other) |->
        IF a \in DOMAIN other THEN other[a] ELSE dict[a]]

\* now = datetime.datetime.now() when the instances are constructed
now == [day |-> 4, month |-> 11, year |-> 2026]

_initialize_builtin_variables ==
    [day |-> MkInt(now.day), month |-> MkInt(now.month), year |-> MkInt(now.year)]

\* the host objects of the embedding program: a user record and its manager
InitialHost ==
    [u |-> [cn |-> MkStr("ann"), boss |-> MkObj("m")],
     m |-> [cn |-> MkStr("bob")]]

User == [user |-> MkObj("u")]

\* the calls the embedding program makes: a text and the variables argument
Programs == <<
    [code |-> "", variables |-> EmptyDict],
    [code |-> "# c\n\n  # d", variables |-> EmptyDict],
    [code |-> "// c", variables |-> EmptyDict],
    [code |-> "  \n\n\t ", variables |-> EmptyDict],
    [code |-> "x = 5\nx + 1", variables |-> EmptyDict],
    [code |-> "x + 2", variables |-> [x |-> MkInt(7)]],
    [code |-> "x + 2\n# end\n\n", variables |-> [x |-> MkInt(7)]],
    [code |-> "1\n2 // c\n99 # c", variables |-> EmptyDict],
    [code |-> "5\n// c", variables |-> EmptyDict],
    [code |-> "log(\"a\")\nlog(z)\nx = 1", variables |-> EmptyDict],
    [code |-> "user.cn = \"zed\"\ny = 1 / 0\nlog(\"no\")", variables |-> User],
    [code |-> "x = 2\n1 +\nx = 3", variables |-> EmptyDict],
    [code |-> "y = log(x) + 1\n2 & 3\ny = 0", variables |-> [x |-> MkInt(1)]],
    [code |-> "+5", variables |-> EmptyDict],
    [code |-> "\"abc\"[:2]", variables |-> EmptyDict],
    [code |-> "user.boss.cn = user.cn", variables |-> User],
    [code |-> "(x = 5) + x", variables |-> EmptyDict],
    [code |-> "if x > 3 then y = 1 else y = 2", variables |-> [x |-> MkInt(4)]],
    [code |-> "if 5 > 3 1 else 2", variables |-> EmptyDict],
    [code |-> "z + 1", variables |-> EmptyDict],
    [code |-> "x = 1.2.3", variables |-> EmptyDict],
    [code |-> "\"abc\"[5]", variables |-> EmptyDict],
    [code |-> "\"t1\" ~ \"[\"", variables |-> EmptyDict],
    [code |-> "log(day) log(2)", variables |-> EmptyDict]
>>

\* operands of and / or: constants, calls of log and assignments in
\* parentheses, truthy and falsy
Operands == {"true", "false", "log(0)", "log(\"b\")", "(x = 5)"}

AndOrTexts == {a \o " " \o op \o " " \o b : a \in Operands, b \in Operands,
                                           op \in {"and", "or"}}

\* conditions, truthy and falsy, and the values of the branches
Conditions == {"true", "0", "\"\"", "2 > 1"}

Thens == {"1", "\"a\""}

Elses == {"2", "null"}

\* if COND then A else B, and if COND then A when B is the empty text
IfText(c, a, b) ==
    "if " \o c \o " then " \o a \o (IF b = "" THEN "" ELSE " else " \o b)

\* where a conditional stands: as the statement, as the right-hand side of
\* an assignment, as the argument of a call, in parentheses
Wrappers == {<<"", "">>, <<"y = ", "">>, <<"log(", ")">>, <<"(", ")">>}

Wrap(w, text) == w[1] \o text \o w[2]

IfTexts == {Wrap(w, IfText(c, a, b)) : c \in Conditions, a \in Thens,
                                      b \in Elses \cup {""}, w \in Wrappers}

\* statements with an opening ( or [ that is never closed
UnbalancedTexts ==
    {"(1 + 2", "2 * (3 + 4", "((1)", "log(1", "len(\"ab\"", "\"abc\"[1",
     "\"abc\"[1:", "\"abc\"[:2"}

\* the expression statements given to evaluate
\* dot-chains: a root that evaluate is given (user) and one that is bound
\* nowhere, followed by up to MaxChain property names, read and assigned to
Roots == {"user", "nobody"}

Props == {"cn", "boss", "nope"}

Chains == UNION {[1..n -> Props] : n \in 1..MaxChain}

RECURSIVE DotText(_, _)
DotText(root, chain) ==
    IF chain = <<>> THEN root ELSE DotText(root \o "." \o Head(chain), Tail(chain))

AssignText(root, chain) == DotText(root, chain) \o " = \"zed\""

DotChainTexts ==
    {DotText(r, c) : r \in Roots, c \in Chains}
        \cup {AssignText(r, c) : r \in Roots, c \in Chains}

\* calls: the two builtins, a name that is no function and a name that is
\* bound to a value, with up to MaxArgs arguments, some of which print
Functions == {"len", "log", "nope", "day"}

Arguments == {"\"bc\"", "log(\"a\")", "log(1)"}

ArgLists == UNION {[1..n -> Arguments] : n \in 0..MaxArgs}

RECURSIVE ArgsText(_)
ArgsText(args) ==
    IF args = <<>> THEN ""
    ELSE Head(args) \o (IF Len(args) > 1 THEN ", " ELSE "") \o ArgsText(Tail(args))

CallText(f, args) == f \o "(" \o ArgsText(args) \o ")"

CallTexts == {CallText(f, args) : f \in Functions, args \in ArgLists}

\* scripts that print: one log call, a log call in a log call, two log
\* calls in one statement, and two such statements; logs names the
\* arguments of the log calls in source order, first those of the first
\* statement
LogValues == {"1", "\"a\"", "null"}

LogOne(a) == "log(" \o a \o ")"

LogStatements ==
    {[kind |-> "one", text |-> LogOne(a), logs |-> <<a>>] : a \in LogValues}
        \cup {[kind |-> "nested", text |-> LogOne(LogOne(a)), logs |-> <<a, a>>] :
                  a \in LogValues}
        \cup {[kind |-> "pair", text |-> LogOne(a) \o " == " \o LogOne(b),
               logs |-> <<a, b>>] : a \in LogValues, b \in LogValues}

LogScripts ==
    {[text |-> s.text, first |-> s.logs, logs |-> s.logs, last |-> s] :
        s \in LogStatements}
        \cup {[text |-> s.text \o "\n" \o t.text, first |-> s.logs,
               logs |-> s.logs \o t.logs, last |-> t] :
                  s \in LogStatements, t \in {u \in LogStatements : u.kind = "one"}}

Expressions ==
    {[code |-> c, variables |-> EmptyDict] :
        c \in AndOrTexts \cup IfTexts \cup UnbalancedTexts}

\* arithmetic on two literals: + - * on integers, / on integers and floats
IntTexts == {NatStr(i) : i \in 0..MaxOperand} \cup {"12"}

FloatTexts == {"0.5", "2.0"}

BinaryText(a, op, b) == a \o " " \o op \o " " \o b

ArithmeticTexts ==
    {BinaryText(a, op, b) : a \in IntTexts, b \in IntTexts, op \in {"+", "-", "*"}}
        \cup {BinaryText(a, "/", b) : a \in IntTexts \cup FloatTexts,
                                      b \in IntTexts \cup FloatTexts}

ArithmeticExpressions ==
    {[code |-> c, variables |-> EmptyDict] : c \in ArithmeticTexts}

\* divisions by a divisor that evaluates to zero, at the top of a statement
\* and inside other expressions
Dividends == {"1", "2.5", "true"}

ZeroDivisors == {"0", "0.0", "(1 - 1)", "false"}

DivisionContexts ==
    Wrappers \cup {<<"2 * (1 + ", ")">>, <<"if ", " then 1">>,
                   <<"if true then 1 else ", "">>, <<"false and ", "">>,
                   <<"\"abc\"[", "]">>}

DivisionTexts ==
    {Wrap(w, BinaryText(a, "/", z)) :
        w \in DivisionContexts, a \in Dividends, z \in ZeroDivisors}

DivisionExpressions == {[code |-> c, variables |-> EmptyDict] : c \in DivisionTexts}

\* expressions of two operators on the literals 2 (or 0), 3 and 4 (a string
\* literal where it is the right operand of ~): a op1 b op2 c as it stands,
\* with the left two and with the right two operands in parentheses, and the
\* same with one unary and one binary operator
BinaryOps == {"or", "and", "<", "==", "~", "+", "-", "*", "/"}

GroupedOps == {"or", "and", "<", "+", "*"}

UnaryOps == {"-", "not"}

FirstLiterals == {0, 2}

Quoted(op, text) == IF op = "~" THEN "\"" \o text \o "\"" ELSE text

PrecedenceCases ==
    {[shape |-> "flat", a |-> a, op1 |-> o1, op2 |-> o2,
      text |-> BinaryText(BinaryText(NatStr(a), o1, Quoted(o1, "3")), o2,
                          Quoted(o2, "4"))] :
        a \in FirstLiterals, o1 \in BinaryOps, o2 \in BinaryOps}
    \cup
    {[shape |-> "left", a |-> 2, op1 |-> o1, op2 |-> o2,
      text |-> BinaryText("(" \o BinaryText("2", o1, "3") \o ")", o2, "4")] :
        o1 \in GroupedOps, o2 \in GroupedOps}
    \cup
    {[shape |-> "right", a |-> 2, op1 |-> o1, op2 |-> o2,
      text |-> BinaryText("2", o1, "(" \o BinaryText("3", o2, "4") \o ")")] :
        o1 \in GroupedOps, o2 \in GroupedOps}
    \cup
    {[shape |-> "unary left", a |-> 2, op1 |-> u, op2 |-> o,
      text |-> BinaryText(u \o " 2", o, Quoted(o, "3"))] :
        u \in UnaryOps, o \in BinaryOps}
    \cup
    {[shape |-> "unary both", a |-> 2, op1 |-> u, op2 |-> o,
      text |-> u \o " (" \o BinaryText("2", o, Quoted(o, "3")) \o ")"] :
        u \in UnaryOps, o \in BinaryOps}
    \cup
    {[shape |-> "unary right", a |-> 2, op1 |-> u, op2 |-> o,
      text |-> BinaryText("2", o, u \o " " \o Quoted(o, "3"))] :
        u \in UnaryOps, o \in BinaryOps}

PrecedenceExpressions ==
    {[code |-> c.text, variables |-> EmptyDict] : c \in PrecedenceCases}

DotChainExpressions == {[code |-> c, variables |-> User] : c \in DotChainTexts}

CallExpressions == {[code |-> c, variables |-> EmptyDict] : c \in CallTexts}

LogExpressions == {[code |-> s.text, variables |-> EmptyDict] : s \in LogScripts}

NoFrame ==
    [op |-> "", statements |-> <<>>, k |-> 0, last_result |-> None,
     original_tokens |-> <<>>, original_index |-> 0, original_variables |-> EmptyDict]

NoResult == [op |-> "", status |-> "", val |-> None, err |-> "", stmt |-> ""]

Returned(op, v) == [op |-> op, status |-> "return", val |-> v, err |-> "", stmt |-> ""]

\* the instance as a record
Instance(toks, idx, vs, h, o) ==
    [tokens |-> toks, current_token_index |-> idx, variables |-> vs, host |-> h,
     out |-> o]

\* history: the call that begins now
Call(op, prog) ==
    [op |-> op, code |-> prog.code, arg |-> prog.variables,
     inst |-> Instance(tokens, current_token_index, variables, host, out)]

NoTrace(inst) == [tokenized |-> <<>>, values |-> <<>>, done |-> inst]

\* the parser state a statement starts from
ParserState(inst, known) ==
    [idx |-> inst.current_token_index, variables |-> inst.variables,
     host |-> inst.host, out |-> inst.out, err |-> "", val |-> None,
     resolved |-> known, bound |-> <<>>]

\* history: given after the assignments a statement made, in order
RECURSIVE Bind(_, _)
Bind(g, bound) ==
    IF bound = <<>> THEN g
    ELSE Bind([a \in (DOMAIN g) \cup {Head(bound)[1]} |->
                  IF a = Head(bound)[1] THEN Head(bound)[2] ELSE g[a]],
              Tail(bound))

\* history: given after evaluate took the variables argument
Given(g, arg) ==
    [a \in (DOMAIN g) \cup (DOMAIN arg) |-> IF a \in DOMAIN arg THEN arg[a] ELSE g[a]]

\* the other unit of work: its own instance, constructed at the same time, and
\* no call made yet
Constructed ==
    [tokens |-> <<>>, current_token_index |-> 0,
     variables |-> _initialize_builtin_variables, host |-> InitialHost,
     pc |-> "idle", frame |-> NoFrame, result |-> NoResult, ncalls |-> 0,
     resolved |-> {}, given |-> EmptyDict,
     pre |-> [op |-> "", code |-> "", arg |-> EmptyDict,
              inst |-> Instance(<<>>, 0, _initialize_builtin_variables,
                                InitialHost, <<>>)],
     trace |-> NoTrace(Instance(<<>>, 0, _initialize_builtin_variables,
                                InitialHost, <<>>))]

\* the world around an instance that has just been constructed
InitWorld ==
    /\ clock = [day |-> now.day, month |-> now.month, year |-> now.year, ticks |-> 0]
    /\ running = 1
    /\ parked = Constructed

Init ==
    /\ tokens = <<>>
    /\ current_token_index = 0
    /\ variables = _initialize_builtin_variables
    /\ host = InitialHost
    /\ out = <<>>
    /\ pc = "idle"
    /\ frame = NoFrame
    /\ result = NoResult
    /\ ncalls = 0
    /\ resolved = {}
    /\ given = EmptyDict
    /\ pre = [op |-> "", code |-> "", arg |-> EmptyDict,
              inst |-> Instance(<<>>, 0, _initialize_builtin_variables,
                                InitialHost, <<>>)]
    /\ trace = NoTrace(pre.inst)
    /\ InitWorld

\* the except clauses of evaluate without ZeroDivisionError in the first
evaluate_raise_wraps_zero_division(e, statement) ==
    IF e \in {"NameError", "AttributeError", "TypeError", "ValueError", "SyntaxError"}
    THEN [op |-> "evaluate", status |-> "raise", val |-> None, err |-> e, stmt |-> ""]
    ELSE [op |-> "evaluate", status |-> "raise", val |-> None, err |-> "Exception",
          stmt |-> statement]

\* ----------------------------------------------------------------- evaluate
\* the except clauses of evaluate: the listed exceptions are re-raised as
\* they are, any other is wrapped with the text of the statement
evaluate_raise(e, statement) ==
    IF e \in {"NameError", "AttributeError", "TypeError", "ValueError",
              "SyntaxError", "ZeroDivisionError"}
    THEN [op |-> "evaluate", status |-> "raise", val |-> None, err |-> e, stmt |-> ""]
    ELSE [op |-> "evaluate", status |-> "raise", val |-> None, err |-> "Exception",
          stmt |-> statement]

\* parse_statement with the instance put back, when the statement raises, to
\* what it was when the call began
in_place_rolled_back(inst, r) ==
    IF r.err # "" THEN [pre.inst EXCEPT !.tokens = inst.tokens]
    ELSE Instance(inst.tokens, r.idx, r.variables, r.host, r.out)

\* parse_statement works on the instance itself: what the statement has
\* written by the time it returns or raises is what the instance holds
in_place(inst, r) == Instance(inst.tokens, r.idx, r.variables, r.host, r.out)

\* the for loop of evaluate from statement k on, as a function of the
\* instance: how the call ends and the instance it leaves
RECURSIVE evaluate_loop(_, _, _, _)
evaluate_loop(statements, k, inst, last_result) ==
    IF k > Len(statements)
    THEN [result |-> Returned("evaluate", last_result), inst |-> inst]
    ELSE LET statement == statements[k]
             t == tokenize(statement)
         IN  IF t.err # ""
             THEN [result |-> evaluate_raise(t.err, statement), inst |-> inst]
             ELSE LET r == self("parse_statement", t.tokens,
                               ParserState(Instance(t.tokens, 0, inst.variables,
                                                    inst.host, inst.out), {}))
                      after == in_place(Instance(t.tokens, 0, inst.variables,
                                                 inst.host, inst.out), r)
                  IN  IF r.err # ""
                      THEN [result |-> evaluate_raise(r.err, statement),
                            inst |-> after]
                      ELSE evaluate_loop(statements, k + 1, after, r.val)

\* evaluate(code, variables) as a function of the instance it is called on
evaluate(code, extra, inst) ==
    evaluate_loop(_parse_statements(code), 1,
                  [inst EXCEPT !.tokens = <<>>, !.current_token_index = 0,
                               !.variables = IF extra # EmptyDict
                                             THEN update(@, extra) ELSE @],
                  None)

\* EvaluateBegin with day, month and year read from the clock again at each
\* call
EvaluateBegin_reads_clock(prog) ==
    /\ pc = "idle"
    /\ ncalls < MaxCalls
    /\ ncalls' = ncalls + 1
    /\ pre' = Call("evaluate", prog)
    /\ resolved' = {}
    /\ tokens' = <<>>
    /\ current_token_index' = 0
    /\ variables' = update(update(variables,
                                   [day |-> MkInt(clock.day),
                                    month |-> MkInt(clock.month),
                                    year |-> MkInt(clock.year)]),
                            prog.variables)
    /\ given' = Given(given, prog.variables)
    /\ trace' = NoTrace(Instance(tokens', 0, variables', host, out))
    /\ LET statements == _parse_statements(prog.code)
       IN  IF statements = <<>>
           THEN /\ result' = Returned("evaluate", None)
                /\ UNCHANGED <<pc, frame>>
           ELSE /\ pc' = "tokenize"
                /\ frame' = [NoFrame EXCEPT !.op = "evaluate",
                                            !.statements = statements, !.k = 1]
                /\ UNCHANGED result
    /\ UNCHANGED <<host, out>>
    /\ UNCHANGED world

\* evaluate(code, variables) up to the for loop
EvaluateBegin(prog) ==
    /\ pc = "idle"
    /\ ncalls < MaxCalls
    /\ ncalls' = ncalls + 1
    /\ pre' = Call("evaluate", prog)
    /\ resolved' = {}
    /\ tokens' = <<>>
    /\ current_token_index' = 0
    /\ variables' = IF prog.variables # EmptyDict
                    THEN update(variables, prog.variables) ELSE variables
    /\ given' = Given(given, prog.variables)
    /\ trace' = NoTrace(Instance(tokens', 0, variables', host, out))
    /\ LET statements == _parse_statements(prog.code)
       IN  IF statements = <<>>
           THEN /\ result' = Returned("evaluate", None)
                /\ UNCHANGED <<pc, frame>>
           ELSE /\ pc' = "tokenize"
                /\ frame' = [NoFrame EXCEPT !.op = "evaluate",
                                            !.statements = statements, !.k = 1]
                /\ UNCHANGED result
    /\ UNCHANGED <<host, out>>
    /\ UNCHANGED world

\* EvaluateTokenize with the new tokens added to the token list in place of
\* replacing it
EvaluateTokenize_extends_tokens ==
    /\ pc = "tokenize"
    /\ \E t \in {tokenize(frame.statements[frame.k])} :
       LET statement == frame.statements[frame.k]
       IN  /\ trace' = [trace EXCEPT !.tokenized = Append(@, statement)]
           /\ IF t.err # ""
              THEN /\ result' = evaluate_raise(t.err, statement)
                   /\ pc' = "idle"
                   /\ frame' = NoFrame
                   /\ UNCHANGED <<tokens, current_token_index>>
              ELSE /\ tokens' = tokens \o t.tokens
                   /\ current_token_index' = 0
                   /\ pc' = "parse"
                   /\ UNCHANGED <<result, frame>>
    /\ UNCHANGED <<variables, host, out, ncalls, resolved, given, pre>>
    /\ UNCHANGED world

\* EvaluateTokenize without the line self.current_token_index = 0
EvaluateTokenize_keeps_cursor ==
    /\ pc = "tokenize"
    /\ \E t \in {tokenize(frame.statements[frame.k])} :
       LET statement == frame.statements[frame.k]
       IN  /\ trace' = [trace EXCEPT !.tokenized = Append(@, statement)]
           /\ IF t.err # ""
              THEN /\ result' = evaluate_raise(t.err, statement)
                   /\ pc' = "idle"
                   /\ frame' = NoFrame
                   /\ UNCHANGED <<tokens, current_token_index>>
              ELSE /\ tokens' = t.tokens
                   /\ current_token_index' = current_token_index
                   /\ pc' = "parse"
                   /\ UNCHANGED <<result, frame>>
    /\ UNCHANGED <<variables, host, out, ncalls, resolved, given, pre>>
    /\ UNCHANGED world

\* self.tokens = self.tokenize(statement); self.current_token_index = 0
EvaluateTokenize ==
    /\ pc = "tokenize"
    /\ \E t \in {tokenize(frame.statements[frame.k])} :
       LET statement == frame.statements[frame.k]
       IN  /\ trace' = [trace EXCEPT !.tokenized = Append(@, statement)]
           /\ IF t.err # ""
              THEN /\ result' = evaluate_raise(t.err, statement)
                   /\ pc' = "idle"
                   /\ frame' = NoFrame
                   /\ UNCHANGED <<tokens, current_token_index>>
              ELSE /\ tokens' = t.tokens
                   /\ current_token_index' = 0
                   /\ pc' = "parse"
                   /\ UNCHANGED <<result, frame>>
    /\ UNCHANGED <<variables, host, out, ncalls, resolved, given, pre>>
    /\ UNCHANGED world

\* last_result = self.parse_statement(), then the next turn of the loop or
\* the return
EvaluateParse ==
    /\ pc = "parse"
    /\ \E r \in {self("parse_statement", tokens,
                     ParserState(Instance(tokens, current_token_index, variables,
                                          host, out), resolved))} :
       LET statement == frame.statements[frame.k]
           after == in_place(Instance(tokens, current_token_index, variables,
                                      host, out), r)
       IN  /\ current_token_index' = after.current_token_index
           /\ variables' = after.variables
           /\ host' = after.host
           /\ out' = after.out
           /\ resolved' = r.resolved
           /\ given' = Bind(given, r.bound)
           /\ IF r.err # ""
              THEN /\ result' = evaluate_raise(r.err, statement)
                   /\ pc' = "idle"
                   /\ frame' = NoFrame
                   /\ UNCHANGED trace
              ELSE /\ trace' = [trace EXCEPT
                                  !.values = Append(@, r.val),
                                  !.done = after]
                   /\ IF frame.k = Len(frame.statements)
                      THEN /\ result' = Returned("evaluate", r.val)
                           /\ pc' = "idle"
                           /\ frame' = NoFrame
                      ELSE /\ pc' = "tokenize"
                           /\ frame' = [frame EXCEPT !.k = @ + 1, !.last_result = r.val]
                           /\ UNCHANGED result
    /\ UNCHANGED <<tokens, ncalls, pre>>
    /\ UNCHANGED world

\* ------------------------------------------------------------------- verify
\* verify_except with except SyntaxError in place of (SyntaxError, ValueError)
verify_except_syntax_only(e) == IF e = "SyntaxError" THEN FALSE ELSE TRUE

\* the except clauses of verify: what it returns when e was raised
verify_except(e) == IF e \in {"SyntaxError", "ValueError"} THEN FALSE ELSE TRUE

\* verify_finally without the line self.variables = original_variables
finally_keeps_variables(original_tokens, original_index, original_variables, inst) ==
    [inst EXCEPT !.tokens = original_tokens, !.current_token_index = original_index]

\* the finally clause of verify: the instance it leaves behind
verify_finally(original_tokens, original_index, original_variables, inst) ==
    [inst EXCEPT !.tokens = original_tokens,
                 !.current_token_index = original_index,
                 !.variables = original_variables]

\* verify(code, variables) up to the test for an empty statement list
VerifyBegin(prog) ==
    /\ pc = "idle"
    /\ ncalls < MaxCalls
    /\ ncalls' = ncalls + 1
    /\ pre' = Call("verify", prog)
    /\ resolved' = {}
    /\ tokens' = <<>>
    /\ current_token_index' = 0
    /\ variables' = IF prog.variables # EmptyDict
                    THEN update(variables, prog.variables) ELSE variables
    /\ pc' = "verify"
    /\ frame' = [NoFrame EXCEPT !.op = "verify",
                                !.statements = _parse_statements(prog.code), !.k = 1,
                                !.original_tokens = tokens,
                                !.original_index = current_token_index,
                                !.original_variables = variables]
    /\ trace' = NoTrace(Instance(tokens', 0, variables', host, out))
    /\ UNCHANGED <<host, out, given, result>>
    /\ UNCHANGED world

\* one turn of the for loop of verify (none when there is no statement):
\* tokenize the statement and check its structure; an exception, or the end
\* of the loop, leaves through the except and finally clauses
VerifyStatement ==
    /\ pc = "verify"
    /\ \E t \in {IF frame.statements = <<>> THEN [err |-> "", tokens |-> tokens]
                ELSE tokenize(frame.statements[frame.k])} :
       \E r \in {IF frame.statements = <<>>
                THEN ParserState(Instance(tokens, current_token_index, variables,
                                          host, out), resolved)
                ELSE IF t.err # ""
                THEN raise(ParserState(Instance(tokens, current_token_index,
                                                variables, host, out), resolved),
                           t.err)
                ELSE self("_verify_statement_syntax", t.tokens,
                         ParserState(Instance(t.tokens, 0, variables, host, out),
                                     resolved))} :
       LET after == Instance(t.tokens, r.idx, r.variables, r.host, r.out)
           left == IF r.err # "" \/ frame.k >= Len(frame.statements)
                   THEN verify_finally(frame.original_tokens, frame.original_index,
                                       frame.original_variables, after)
                   ELSE after
       IN  /\ tokens' = left.tokens
           /\ current_token_index' = left.current_token_index
           /\ variables' = left.variables
           /\ host' = left.host
           /\ out' = left.out
           /\ resolved' = r.resolved
           /\ given' = Bind(given, r.bound)
           /\ IF r.err # "" \/ frame.k >= Len(frame.statements)
              THEN /\ result' = Returned("verify",
                                  MkBool(IF r.err # "" THEN verify_except(r.err) ELSE TRUE))
                   /\ pc' = "idle"
                   /\ frame' = NoFrame
              ELSE /\ frame' = [frame EXCEPT !.k = @ + 1]
                   /\ UNCHANGED <<pc, result>>
    /\ UNCHANGED <<ncalls, pre, trace>>
    /\ UNCHANGED world

Next ==
    \/ \E i \in 1..Len(Programs) : EvaluateBegin(Programs[i])
    \/ EvaluateTokenize
    \/ EvaluateParse
    \/ \E i \in 1..Len(Programs) : VerifyBegin(Programs[i])
    \/ VerifyStatement

Spec == Init /\ [][Next]_vars

\* evaluate called on expression statements
NextExpr ==
    \/ ncalls < MaxExprCalls /\ \E prog \in Expressions : EvaluateBegin(prog)
    \/ EvaluateTokenize
    \/ EvaluateParse

SpecExpr == Init /\ [][NextExpr]_vars

\* evaluate called with dot-chains, the host object given as user
NextDot ==
    \/ ncalls < MaxExprCalls /\ \E prog \in DotChainExpressions : EvaluateBegin(prog)
    \/ EvaluateTokenize
    \/ EvaluateParse

SpecDot == Init /\ [][NextDot]_vars

\* evaluate called with function calls
NextCall ==
    \/ ncalls < MaxExprCalls /\ \E prog \in CallExpressions : EvaluateBegin(prog)
    \/ EvaluateTokenize
    \/ EvaluateParse

SpecCall == Init /\ [][NextCall]_vars

\* evaluate called with scripts of log calls
NextLog ==
    \/ ncalls < MaxExprCalls /\ \E prog \in LogExpressions : EvaluateBegin(prog)
    \/ EvaluateTokenize
    \/ EvaluateParse

SpecLog == Init /\ [][NextLog]_vars

\* evaluate called with arithmetic on two literals
NextArithmetic ==
    \/ ncalls < MaxExprCalls /\ \E prog \in ArithmeticExpressions : EvaluateBegin(prog)
    \/ EvaluateTokenize
    \/ EvaluateParse

SpecArithmetic == Init /\ [][NextArithmetic]_vars

\* evaluate called with divisions by zero
NextDivision ==
    \/ ncalls < MaxExprCalls /\ \E prog \in DivisionExpressions : EvaluateBegin(prog)
    \/ EvaluateTokenize
    \/ EvaluateParse

SpecDivision == Init /\ [][NextDivision]_vars

\* evaluate called with expressions of two operators
NextPrecedence ==
    \/ ncalls < MaxExprCalls /\ \E prog \in PrecedenceExpressions : EvaluateBegin(prog)
    \/ EvaluateTokenize
    \/ EvaluateParse

SpecPrecedence == Init /\ [][NextPrecedence]_vars

\* every source text of at most MaxLen characters over the characters the
\* splitter and the lexer tell apart: a letter, the newline, the quote, the
\* backslash, the two comment openers and the blank
SplitAlphabet == {"a", "\n", "\"", "\\", "#", "/", " "}

RECURSIVE TextsUpTo(_)
TextsUpTo(n) ==
    IF n = 0 THEN {""}
    ELSE LET shorter == TextsUpTo(n - 1)
         IN  shorter \cup {t \o c : t \in shorter, c \in SplitAlphabet}

SplitTexts == TextsUpTo(MaxLen)

\* a fresh instance and a source text that is about to be split
InitSplit ==
    /\ tokens = <<>>
    /\ current_token_index = 0
    /\ variables = _initialize_builtin_variables
    /\ host = InitialHost
    /\ out = <<>>
    /\ pc = "idle"
    /\ frame = NoFrame
    /\ result = NoResult
    /\ ncalls = 0
    /\ resolved = {}
    /\ given = EmptyDict
    /\ \E code \in SplitTexts :
           pre = [op |-> "", code |-> code, arg |-> EmptyDict,
                  inst |-> Instance(<<>>, 0, _initialize_builtin_variables,
                                    InitialHost, <<>>)]
    /\ trace = NoTrace(pre.inst)
    /\ InitWorld

\* statements = self._parse_statements(code), called on its own: the call
\* reads and writes nothing of the instance
Split ==
    /\ pc = "idle"
    /\ pre.op = ""
    /\ \E statements \in {_parse_statements(pre.code)} :
           frame' = [NoFrame EXCEPT !.op = "split", !.statements = statements]
    /\ pre' = [pre EXCEPT !.op = "split"]
    /\ UNCHANGED <<tokens, current_token_index, variables, host, out, pc, result,
                   ncalls, resolved, given, trace>>
    /\ UNCHANGED world

NextSplit == Split

SpecSplit == InitSplit /\ [][NextSplit]_vars

\* the host clock moves on by a day, a month or a year; nothing of an
\* instance changes with it
Tick ==
    /\ clock.ticks < MaxTicks
    /\ \E unit \in {"day", "month", "year"} :
           clock' = CASE unit = "day" -> [clock EXCEPT !.day = @ + 1, !.ticks = @ + 1]
                      [] unit = "month" /\ clock.month < 12 ->
                             [clock EXCEPT !.month = @ + 1, !.ticks = @ + 1]
                      [] unit = "month" /\ clock.month = 12 ->
                             [clock EXCEPT !.month = 1, !.year = @ + 1, !.ticks = @ + 1]
                      [] unit = "year" -> [clock EXCEPT !.year = @ + 1, !.ticks = @ + 1]
    /\ UNCHANGED <<tokens, current_token_index, variables, host, out, pc, frame,
                   result, ncalls, resolved, given, pre, trace, running, parked>>

\* scripts that read the date, and two that give day and year a value of
\* their own
ClockExpressions ==
    {[code |-> c, variables |-> EmptyDict] :
         c \in {"day", "month", "year", "day + 0\nmonth * 1", "t = year\nt", "day = 1"}}
    \cup {[code |-> "year", variables |-> [year |-> MkInt(1)]]}

NextClock ==
    \/ \E prog \in ClockExpressions : EvaluateBegin(prog)
    \/ EvaluateTokenize
    \/ EvaluateParse
    \/ \E prog \in ClockExpressions : VerifyBegin(prog)
    \/ VerifyStatement
    \/ Tick

SpecClock == Init /\ [][NextClock]_vars

\* the instance and the call of the unit of work that has the processor
Running ==
    [tokens |-> tokens, current_token_index |-> current_token_index,
     variables |-> variables, host |-> host, pc |-> pc, frame |-> frame,
     result |-> result, ncalls |-> ncalls, resolved |-> resolved,
     given |-> given, pre |-> pre, trace |-> trace]

\* Switch with self.variables one dictionary of the class, which the two
\* instances share
Switch_shares_variables ==
    /\ running' = 3 - running
    /\ parked' = Running
    /\ tokens' = parked.tokens
    /\ current_token_index' = parked.current_token_index
    /\ variables' = variables
    /\ host' = parked.host
    /\ pc' = parked.pc
    /\ frame' = parked.frame
    /\ result' = parked.result
    /\ ncalls' = parked.ncalls
    /\ resolved' = parked.resolved
    /\ given' = parked.given
    /\ pre' = parked.pre
    /\ trace' = parked.trace
    /\ UNCHANGED <<out, clock>>

\* the scheduler gives the processor to the other unit of work, between any
\* two steps of a call: from now on the steps are those of its evaluator, on
\* the attributes that its __init__ has set
Switch ==
    /\ running' = 3 - running
    /\ parked' = Running
    /\ tokens' = parked.tokens
    /\ current_token_index' = parked.current_token_index
    /\ variables' = parked.variables
    /\ host' = parked.host
    /\ pc' = parked.pc
    /\ frame' = parked.frame
    /\ result' = parked.result
    /\ ncalls' = parked.ncalls
    /\ resolved' = parked.resolved
    /\ given' = parked.given
    /\ pre' = parked.pre
    /\ trace' = parked.trace
    /\ UNCHANGED <<out, clock>>

\* scripts of two units of work that bind and read the same names, by
\* assignment and by the variables argument
TwoExpressions ==
    {[code |-> c, variables |-> EmptyDict] :
         c \in {"x = 1\nx", "x = 2\nx + 1", "x", "user = 7\nuser + x"}}
    \cup {[code |-> "x + 1", variables |-> [x |-> MkInt(5)]],
          [code |-> "user.cn = \"zed\"\nuser.cn", variables |-> User]}

NextTwo ==
    \/ ncalls < MaxExprCalls /\ \E prog \in TwoExpressions : EvaluateBegin(prog)
    \/ EvaluateTokenize
    \/ EvaluateParse
    \/ Switch

SpecTwo == Init /\ [][NextTwo]_vars

\* branches of a conditional: a constant, an assignment, a call of log, the
\* setting of a host property, a division by zero and an undefined name; the
\* two branches of a conditional differ
Branches == {"1", "y = 1", "log(2)", "u.cn = 1", "1 / 0", "z"}

BranchCases ==
    {[c |-> k[1], a |-> k[2], b |-> k[3], text |-> IfText(k[1], k[2], k[3])] :
         k \in {k \in {"true", "0"} \X Branches \X Branches : k[2] # k[3]}}

\* the names the scripts with effects start from: a host object and a number
Bound == [u |-> MkObj("u"), x |-> MkInt(7)]

\* assignments whose right-hand side raises: the target is a bound name, an
\* unbound name or a property of a host object, and the right-hand side
\* divides by zero, reads an undefined name, or first assigns the target
\* itself (nested) and then reads the undefined name
Targets ==
    {[root |-> "x", chain |-> <<>>, text |-> "x"],
     [root |-> "y", chain |-> <<>>, text |-> "y"],
     [root |-> "u", chain |-> <<"cn">>, text |-> "u.cn"],
     [root |-> "u", chain |-> <<"boss", "cn">>, text |-> "u.boss.cn"]}

AssignCases ==
    {[target |-> t, rhs |-> r, nested |-> FALSE, text |-> t.text \o " = " \o r] :
         t \in Targets, r \in {"1 / 0", "z", "(w = 5) + z"}}
    \cup {[target |-> t, rhs |-> "(" \o t.text \o " = 5) + z", nested |-> TRUE,
           text |-> t.text \o " = (" \o t.text \o " = 5) + z"] : t \in Targets}

\* statements that end in a syntax error after an assignment, a call of log
\* or the setting of a host property, or after no effect at all
MalformedTexts ==
    {"(y = 5) +", "log(1) +", "(u.cn = 1) +", "1 +", "y = 5 +", "if (y = 5) 1",
     "if log(1) 2", "x = 1\n(y = 5) +"}

EffectTexts ==
    {k.text : k \in BranchCases} \cup {k.text : k \in AssignCases} \cup MalformedTexts

EffectExpressions == {[code |-> c, variables |-> Bound] : c \in EffectTexts}

NextEffect ==
    \/ ncalls < MaxExprCalls /\ \E prog \in EffectExpressions : EvaluateBegin(prog)
    \/ EvaluateTokenize
    \/ EvaluateParse

SpecEffect == Init /\ [][NextEffect]_vars

\* statements that drive the loops of the lexer, the parser and the validator
\* to the end of the input: argument lists, dot-chains, operator chains and
\* postfix indexing, closed, left open and broken off
LoopTexts ==
    {"log(1, 2", "log(1 2)", "len(\"ab\"", "log(", "log(,)", "log(1,)",
     "user.boss.cn", "user.", "user.boss.", "1 + 2 * 3 - 4", "1 + + 2",
     "1 or 2 and", "1 < 2 <", "\"abc\"[1][0]", "\"abc\"[1:", "\"abc\"[", "((",
     "not not", "- - 1", "if if", "1 @", "\"abc", "1.2.3", "// c", "a = b = 1",
     "log(1)(2)", "if 1 then", "if 1 then 2 else", "1 ,", ")", "1\nlog(\n2"}

LoopExpressions == {[code |-> c, variables |-> User] : c \in LoopTexts}

NextLoop ==
    \/ ncalls < MaxExprCalls /\ \E prog \in LoopExpressions : EvaluateBegin(prog)
    \/ EvaluateTokenize
    \/ EvaluateParse
    \/ ncalls < MaxExprCalls /\ \E prog \in LoopExpressions : VerifyBegin(prog)
    \/ VerifyStatement

\* a step of a call under way: it moves the call to its next position or to
\* its next statement, or ends it
Proceeds ==
    /\ pc # "idle"
    /\ pc' \in {"idle", "tokenize", "parse", "verify"}
    /\ frame' = NoFrame \/ frame'.k \in {frame.k, frame.k + 1}

\* a call that has begun runs on: its thread is not held back for ever
SpecLoop == Init /\ [][NextLoop]_vars /\ WF_<<pc, frame.k>>(Proceeds)

\* ------------------------------------------------------------------ claims
\* C1: after verify returns, true or false, the Environment, the token list
\* and the parse cursor are what they were when verify was called; a name
\* given only through the variables argument is not bound afterwards.
C1_VerifyRestoresInstance ==
    (pc = "idle" /\ result.op = "verify") =>
        /\ variables = pre.inst.variables
        /\ tokens = pre.inst.tokens
        /\ current_token_index = pre.inst.current_token_index
        /\ \A n \in DOMAIN pre.arg :
               n \notin DOMAIN pre.inst.variables => n \notin DOMAIN variables

\* a verify call that returned false, was given a name the Environment did
\* not hold, and began with tokens and a cursor left by an earlier evaluate
C1_Witness ==
    /\ pc = "idle"
    /\ result.op = "verify"
    /\ result.val = MkBool(FALSE)
    /\ pre.inst.tokens # <<>>
    /\ pre.inst.current_token_index > 0
    /\ \E n \in DOMAIN pre.arg : n \notin DOMAIN pre.inst.variables

\* C2: verify performs no evaluation: from its first step to its return a
\* verify call writes nothing to the log sink, sets no host property, looks
\* up no identifier, and the Environment holds only what it held before plus
\* the variables argument (no name is bound by an assignment statement).
C2_VerifyEvaluatesNothing ==
    (pre.op = "verify") =>
        /\ out = pre.inst.out
        /\ host = pre.inst.host
        /\ resolved = {}
        /\ (pc = "verify" => variables = Given(pre.inst.variables, pre.arg))
        /\ (pc = "idle" => variables = pre.inst.variables)

\* verify has checked a statement that assigns, calls log and names a
\* variable, and goes on to the next statement
C2_Witness ==
    /\ pc = "verify"
    /\ frame.k = 2
    /\ frame.statements[1] = "y = log(x) + 1"
    /\ "x" \in DOMAIN variables

\* some statement of code raises SyntaxError or ValueError when it is
\* tokenized or its structure is checked
VerifyRaises(code) ==
    LET statements == _parse_statements(code)
    IN  \E k \in 1..Len(statements) :
            LET t == tokenize(statements[k])
            IN  \/ t.err \in {"SyntaxError", "ValueError"}
                \/ /\ t.err = ""
                   /\ self("_verify_statement_syntax", t.tokens,
                          ParserState(Instance(t.tokens, 0, variables, host, out),
                                      {})).err \in {"SyntaxError", "ValueError"}

\* C3: verify never raises: it returns, and it returns false exactly when
\* tokenizing or checking some statement raises SyntaxError or ValueError
\* (true otherwise, also for a text without statements).
C3_VerifyReturnsBoolean ==
    (pc = "idle" /\ result.op = "verify") =>
        /\ result.status = "return"
        /\ result.val = MkBool(~VerifyRaises(pre.code))

\* verify returned false for a number the lexer cannot convert (ValueError)
C3_Witness ==
    /\ pc = "idle"
    /\ result.op = "verify"
    /\ pre.code = "x = 1.2.3"
    /\ result.val = MkBool(FALSE)

\* C4: the validator accepts every statement the evaluating parser accepts:
\* whenever evaluate of a text returns a value (every statement parsed to
\* completion), verify of the same text on the same instance returns true.
C4_ValidatorAcceptsWhatEvaluates ==
    (/\ pc = "idle"
     /\ result.op = "verify"
     /\ evaluate(pre.code, pre.arg, pre.inst).result.status = "return")
        => result.val = MkBool(TRUE)

\* C5: the validator rejects every statement the evaluating parser rejects:
\* whenever verify of a text returns true, evaluate of the same text on the
\* same instance does not fail with SyntaxError.
C5_VerifiedNeverMalformed ==
    (/\ pc = "idle"
     /\ result.op = "verify"
     /\ result.val = MkBool(TRUE))
        => evaluate(pre.code, pre.arg, pre.inst).result.err # "SyntaxError"

\* the position of the last line break at or before i, 0 when there is none
RECURSIVE LastNewline(_, _)
LastNewline(code, i) ==
    IF i = 0 THEN 0
    ELSE IF Ch(code, i) = "\n" THEN i
    ELSE LastNewline(code, i - 1)

\* a line that holds nothing, white space only, or a comment in either of
\* the two forms the lexer defines
IsBlankOrComment(line) ==
    LET l == strip(line)
    IN  \/ l = ""
        \/ SubSeq(l, 1, 1) = "#"
        \/ Len(l) >= 2 /\ SubSeq(l, 1, 2) = "//"

\* the text without the blank and comment lines that follow its last other line
RECURSIVE DropTrailing(_)
DropTrailing(code) ==
    LET j == LastNewline(code, Len(code))
    IN  IF j > 0 /\ IsBlankOrComment(SubSeq(code, j + 1, Len(code)))
        THEN DropTrailing(SubSeq(code, 1, j - 1))
        ELSE code

\* every line of the text is blank or a comment
RECURSIVE OnlyBlankAndComments(_)
OnlyBlankAndComments(code) ==
    LET j == LastNewline(code, Len(code))
    IN  /\ IsBlankOrComment(SubSeq(code, j + 1, Len(code)))
        /\ (j > 0 => OnlyBlankAndComments(SubSeq(code, 1, j - 1)))

\* C6: when evaluate returns, it returns the value of the last statement the
\* splitter produced, whatever the earlier values; and a text made of a
\* script whose statements all succeed followed by comment lines and blank
\* lines ends as that script alone ends.
C6_LastStatementValue ==
    (pc = "idle" /\ result.op = "evaluate") =>
        /\ (result.status = "return" /\ trace.values # <<>>) =>
               /\ Len(trace.values) = Len(_parse_statements(pre.code))
               /\ result.val = trace.values[Len(trace.values)]
        /\ LET alone == evaluate(DropTrailing(pre.code), pre.arg, pre.inst).result
           IN  alone.status = "return" => result = alone

\* C7: evaluate of a text that holds only blank lines, white space and
\* comments, in the # form or the // form, returns None and raises nothing.
C7_OnlyCommentsReturnNone ==
    (pc = "idle" /\ result.op = "evaluate" /\ OnlyBlankAndComments(pre.code)) =>
        result = Returned("evaluate", None)

IsPrefix(a, b) == Len(a) <= Len(b) /\ SubSeq(b, 1, Len(a)) = a

\* C9: when statement k of a script fails, evaluate raises; the bindings,
\* host properties and log output that statements 1..k-1 left (trace.done,
\* the instance when statement k-1 completed) are still there, changed only
\* by what statement k itself did before it failed; and no statement after
\* k has been tokenized or executed.
C9_NoRollback ==
    (/\ pc = "idle"
     /\ result.op = "evaluate"
     /\ Len(trace.tokenized) > Len(trace.values)) =>
        LET statements == _parse_statements(pre.code)
            k == Len(trace.values) + 1
            t == tokenize(statements[k])
            r == self("parse_statement", t.tokens,
                     ParserState(Instance(t.tokens, 0, trace.done.variables,
                                          trace.done.host, trace.done.out), {}))
        IN  /\ result.status = "raise"
            /\ result.err # ""
            /\ trace.tokenized = SubSeq(statements, 1, k)
            /\ IsPrefix(trace.done.out, out)
            /\ \A n \in DOMAIN trace.done.variables :
                   /\ n \in DOMAIN variables
                   /\ \/ variables[n] = trace.done.variables[n]
                      \/ n \in DOMAIN given /\ variables[n] = given[n]
            /\ \A o \in DOMAIN trace.done.host :
                   \A a \in DOMAIN trace.done.host[o] : a \in DOMAIN host[o]
            /\ IF t.err # ""
               THEN /\ variables = trace.done.variables
                    /\ host = trace.done.host
                    /\ out = trace.done.out
               ELSE /\ variables = r.variables
                    /\ host = r.host
                    /\ out = r.out

\* the second statement of a script has failed after the first one set a
\* host property, and a third statement follows: the property is still set
C9_Witness ==
    /\ pc = "idle"
    /\ result.op = "evaluate"
    /\ result.err = "ZeroDivisionError"
    /\ Len(trace.values) = 1
    /\ Len(_parse_statements(pre.code)) = 3
    /\ host["u"]["cn"] = MkStr("zed")
    /\ pre.inst.host["u"]["cn"] # MkStr("zed")

\* C10: within one evaluate call the statements are taken in source order,
\* one at a time: when statement k is tokenized or parsed, statements 1..k-1
\* and no others have completed and the instance holds exactly what they
\* left (trace.done); the token list of the instance is empty or the tokens
\* of exactly one statement: the one being parsed, or the one parsed last.
C10_OneStatementAtATime ==
    /\ (pre.op = "evaluate" /\ pc \in {"tokenize", "parse"}) =>
           /\ frame.statements = _parse_statements(pre.code)
           /\ trace.tokenized = SubSeq(frame.statements, 1, Len(trace.tokenized))
           /\ Len(trace.values) = frame.k - 1
           /\ variables = trace.done.variables
           /\ host = trace.done.host
           /\ out = trace.done.out
           /\ (pc = "tokenize" =>
                  /\ Len(trace.tokenized) = frame.k - 1
                  /\ tokens = IF frame.k = 1 THEN <<>>
                              ELSE tokenize(frame.statements[frame.k - 1]).tokens)
           /\ (pc = "parse" =>
                  /\ Len(trace.tokenized) = frame.k
                  /\ tokens = tokenize(frame.statements[frame.k]).tokens
                  /\ current_token_index = 0)
    /\ (pc = "idle" /\ result.op = "evaluate") =>
           \/ tokens = <<>>
           \/ \E j \in 1..Len(trace.tokenized) :
                  tokens = tokenize(trace.tokenized[j]).tokens

\* the second statement of a script is about to be parsed: the first one has
\* written to the log and the token list holds the second statement's tokens
C10_Witness ==
    /\ pre.op = "evaluate"
    /\ pc = "parse"
    /\ frame.k = 2
    /\ Len(out) > Len(pre.inst.out)
    /\ tokens # tokenize(frame.statements[1]).tokens

\* C11: and / or do not short-circuit: evaluate of "A and B" or "A or B"
\* leaves the instance (bindings, host properties, log output) exactly as
\* evaluating A and then B leaves it, whatever the value of A, and returns
\* Python's combination of the two values.
C11_NoShortCircuit ==
    (pc = "idle" /\ result.op = "evaluate") =>
        \A a \in Operands, b \in Operands, op \in {"and", "or"} :
            (pre.code = a \o " " \o op \o " " \o b) =>
                LET A == evaluate(a, pre.arg, pre.inst)
                    B == evaluate(b, EmptyDict, A.inst)
                IN  (A.result.status = "return" /\ B.result.status = "return") =>
                        /\ result.status = "return"
                        /\ result.val =
                              IF (op = "and") = Truthy(A.result.val)
                              THEN B.result.val ELSE A.result.val
                        /\ variables = B.inst.variables
                        /\ host = B.inst.host
                        /\ out = B.inst.out

\* the left operand alone decides, and the right operand has still written
\* to the log
C11_Witness ==
    /\ pc = "idle"
    /\ result.op = "evaluate"
    /\ pre.code = "true or log(\"b\")"
    /\ result.val = MkBool(TRUE)
    /\ out = Append(pre.inst.out, "b")

\* the value of an expression evaluated on the instance the call began with
ValueOf(text) == evaluate(text, pre.arg, pre.inst).result.val

\* C12: "if COND then A else B" returns the value of A when the value of
\* COND is truthy and the value of B when it is falsy, "if COND then A"
\* returns None when COND is falsy; as a statement, as the right-hand side
\* of an assignment, as a call argument and in parentheses.
C12_ConditionalValue ==
    (pc = "idle" /\ result.op = "evaluate") =>
        \A c \in Conditions, a \in Thens, b \in Elses \cup {""}, w \in Wrappers :
            (pre.code = Wrap(w, IfText(c, a, b))) =>
                result = Returned("evaluate",
                                  IF Truthy(ValueOf(c)) THEN ValueOf(a)
                                  ELSE IF b = "" THEN None ELSE ValueOf(b))

\* a conditional without else, with a falsy condition, as a call argument
C12_Witness ==
    /\ pc = "idle"
    /\ result.op = "evaluate"
    /\ pre.code = "log(if 0 then \"a\")"
    /\ result = Returned("evaluate", None)
    /\ out = Append(pre.inst.out, "None")

\* C13: evaluate never returns a value while tokens other than EOF remain
\* unconsumed after the last statement it parsed.
C13_NoTrailingTokens ==
    (pc = "idle" /\ result.op = "evaluate" /\ result.status = "return"
                 /\ tokens # <<>>) =>
        current_token(tokens, current_token_index).type = "EOF"

\* the number of tokens of a type in a token list
Count(toks, type) == Cardinality({i \in 1..Len(toks) : toks[i].type = type})

\* C14: evaluate of a statement in which more ( than ) or more [ than ]
\* stand, so that some opening bracket has no closing one before the end,
\* fails with SyntaxError.
C14_UnbalancedBrackets ==
    (/\ pc = "idle"
     /\ result.op = "evaluate"
     /\ pre.code \in UnbalancedTexts
     /\ \/ Count(tokens, "LPAREN") > Count(tokens, "RPAREN")
        \/ Count(tokens, "LBRACKET") > Count(tokens, "RBRACKET")) =>
        /\ result.status = "raise"
        /\ result.err = "SyntaxError"

\* the Property Capability walked along a chain: the value reached, or the
\* failure at the first property the current object does not have
RECURSIVE Walk(_, _, _)
Walk(h, obj, chain) ==
    IF chain = <<>> THEN [ok |-> TRUE, val |-> obj]
    ELSE IF obj.t = "obj" /\ Head(chain) \in DOMAIN h[obj.s]
         THEN Walk(h, h[obj.s][Head(chain)], Tail(chain))
         ELSE [ok |-> FALSE, val |-> None]

Front(chain) == SubSeq(chain, 1, Len(chain) - 1)

\* C15: reading root.p1...pn raises NameError when root is not bound and
\* AttributeError at the first property the current object does not have,
\* and otherwise returns the value reached; assigning root.p1...pn = v
\* raises NameError when root is not bound and AttributeError when one of
\* p1..p(n-1) is missing, and then no attribute of any host object has
\* changed; when the assignment succeeds the host objects differ from
\* before only in attribute pn of the object p1..p(n-1) leads to, which is
\* v, and v is returned.
C15_DotChainResolution ==
    (pc = "idle" /\ result.op = "evaluate") =>
        \A root \in Roots, chain \in Chains :
            LET env == update(pre.inst.variables, pre.arg)
                h == pre.inst.host
            IN  /\ (pre.code = DotText(root, chain)) =>
                       /\ host = h
                       /\ IF root \notin DOMAIN env
                          THEN result.status = "raise" /\ result.err = "NameError"
                          ELSE IF ~Walk(h, env[root], chain).ok
                          THEN result.status = "raise" /\ result.err = "AttributeError"
                          ELSE result = Returned("evaluate", Walk(h, env[root], chain).val)
                /\ (pre.code = AssignText(root, chain)) =>
                       IF root \notin DOMAIN env
                       THEN result.status = "raise" /\ result.err = "NameError" /\ host = h
                       ELSE LET parent == Walk(h, env[root], Front(chain))
                                last == chain[Len(chain)]
                            IN  IF ~parent.ok \/ parent.val.t # "obj"
                                THEN /\ result.status = "raise"
                                     /\ result.err = "AttributeError"
                                     /\ host = h
                                ELSE /\ result = Returned("evaluate", MkStr("zed"))
                                     /\ DOMAIN host = DOMAIN h
                                     /\ \A o \in DOMAIN h :
                                            /\ DOMAIN host[o] = (DOMAIN h[o]) \cup
                                                   (IF o = parent.val.s THEN {last} ELSE {})
                                            /\ \A a \in DOMAIN host[o] :
                                                   host[o][a] = IF o = parent.val.s /\ a = last
                                                                THEN MkStr("zed") ELSE h[o][a]

C15_Witness ==
    /\ pc = "idle"
    /\ result.op = "evaluate"
    /\ pre.code = "user.boss.cn = \"zed\""
    /\ result = Returned("evaluate", MkStr("zed"))
    /\ host.m.cn = MkStr("zed")
    /\ host.u = pre.inst.host.u

\* the arguments evaluated one after the other, each on the instance the one
\* before it left: the instance after the last and the values in order
RECURSIVE EvaluateArgs(_, _, _)
EvaluateArgs(args, inst, vals) ==
    IF args = <<>> THEN [inst |-> inst, vals |-> vals]
    ELSE LET A == evaluate(Head(args), EmptyDict, inst)
         IN  EvaluateArgs(Tail(args), A.inst, Append(vals, A.result.val))

\* C16: a call f(a1, .., an) whose arguments evaluate leaves the instance as
\* evaluating a1, .., an in this order leaves it (and one more line printed
\* when the call is log with one argument); it raises TypeError when f is
\* len or log and n is not 1, and NameError when f is any other name, bound
\* to a value or not; only len and log with one argument return.
C16_CallDispatch ==
    (pc = "idle" /\ result.op = "evaluate") =>
        \A f \in Functions, args \in ArgLists :
            (pre.code = CallText(f, args)) =>
                LET first == [pre.inst EXCEPT !.variables = update(@, pre.arg)]
                    E == EvaluateArgs(args, first, <<>>)
                IN  /\ variables = E.inst.variables
                    /\ host = E.inst.host
                    /\ IF f \notin {"len", "log"}
                       THEN /\ result.status = "raise" /\ result.err = "NameError"
                            /\ out = E.inst.out
                       ELSE IF Len(args) # 1
                       THEN /\ result.status = "raise" /\ result.err = "TypeError"
                            /\ out = E.inst.out
                       ELSE IF f = "log"
                       THEN /\ result = Returned("evaluate", E.vals[1])
                            /\ out = Append(E.inst.out, PyStr(E.vals[1]))
                       ELSE /\ out = E.inst.out
                            /\ IF E.vals[1].t = "str"
                               THEN result = Returned("evaluate", MkInt(Len(E.vals[1].s)))
                               ELSE result.status = "raise" /\ result.err = "TypeError"

C16_Witness ==
    /\ pc = "idle"
    /\ result.op = "evaluate"
    /\ pre.code = "nope(log(\"a\"), log(1))"
    /\ result.status = "raise"
    /\ result.err = "NameError"
    /\ out = pre.inst.out \o <<"a", "1">>

\* what the log calls named by logs print, in this order
Printed(logs) == [i \in 1..Len(logs) |-> PyStr(ValueOf(logs[i]))]

\* C17: each evaluated log(x) prints one line, str(x), and returns x: after a
\* script of log calls stdout holds, after what it held before, one line per
\* log call, in source order of the statements and from left to right
\* within a statement, the value returned is the argument of the last log
\* call (for log(a) == log(b) whether the two arguments are equal), and
\* when the first of two statements has completed stdout holds the lines
\* of the first statement only.
C17_LogAppendsAndReturns ==
    (result.op = "evaluate" \/ pc # "idle") =>
        \A s \in LogScripts :
            (pre.op = "evaluate" /\ pre.code = s.text) =>
                /\ (pc = "idle") =>
                       /\ out = pre.inst.out \o Printed(s.logs)
                       /\ result =
                              Returned("evaluate",
                                  IF s.last.kind = "pair"
                                  THEN MkBool(ValueOf(s.last.logs[1]) = ValueOf(s.last.logs[2]))
                                  ELSE ValueOf(s.last.logs[1]))
                /\ (pc # "idle" /\ Len(trace.values) = 1 /\ s.logs # s.first) =>
                       out = pre.inst.out \o Printed(s.first)

C17_Witness ==
    /\ pc = "idle"
    /\ result.op = "evaluate"
    /\ pre.code = "log(1) == log(\"a\")\nlog(null)"
    /\ result = Returned("evaluate", None)
    /\ out = pre.inst.out \o <<"1", "a", "None">>

Level(op) ==
    CASE op = "or" -> 1
      [] op = "and" -> 2
      [] op \in {"<", "==", "~"} -> 3
      [] op \in {"+", "-"} -> 4
      [] op \in {"*", "/"} -> 5

\* the reference evaluator: an operator applied to the outcomes of its
\* operands, the left one evaluated first
ApplyBinary(op, x, y) ==
    IF x.err # "" THEN x
    ELSE IF y.err # "" THEN y
    ELSE CASE op = "or" -> Ok(IF Truthy(x.val) THEN x.val ELSE y.val)
           [] op = "and" -> Ok(IF Truthy(x.val) THEN y.val ELSE x.val)
           [] op \in {"<", "==", "~"} -> PyCompare(op, x.val, y.val)
           [] op = "+" -> PyAdd(x.val, y.val)
           [] op = "-" -> PySub(x.val, y.val)
           [] op = "*" -> PyMul(x.val, y.val)
           [] op = "/" -> PyDiv(x.val, y.val)

ApplyUnary(op, x) ==
    IF x.err # "" THEN x
    ELSE IF op = "-" THEN PyNeg(x.val) ELSE Ok(MkBool(~Truthy(x.val)))

\* the literal the text of a case has at the right of op
Literal(op, i) == Ok(IF op = "~" THEN MkStr(NatStr(i)) ELSE MkInt(i))

\* the reference evaluator on a case: a unary operator binds tighter than
\* any binary one, of two binary operators the one of the higher level and
\* of two of one level the left one is applied first, and parentheses
\* are applied before what stands around them
Reference(c) ==
    CASE c.shape = "flat" ->
             IF Level(c.op2) > Level(c.op1)
             THEN ApplyBinary(c.op1, Literal("", c.a),
                      ApplyBinary(c.op2, Literal(c.op1, 3), Literal(c.op2, 4)))
             ELSE ApplyBinary(c.op2,
                      ApplyBinary(c.op1, Literal("", c.a), Literal(c.op1, 3)),
                      Literal(c.op2, 4))
      [] c.shape = "left" ->
             ApplyBinary(c.op2, ApplyBinary(c.op1, Literal("", c.a), Literal("", 3)),
                         Literal("", 4))
      [] c.shape = "right" ->
             ApplyBinary(c.op1, Literal("", c.a),
                         ApplyBinary(c.op2, Literal("", 3), Literal("", 4)))
      [] c.shape = "unary left" ->
             ApplyBinary(c.op2, ApplyUnary(c.op1, Literal("", c.a)), Literal(c.op2, 3))
      [] c.shape = "unary both" ->
             ApplyUnary(c.op1, ApplyBinary(c.op2, Literal("", c.a), Literal(c.op2, 3)))
      [] c.shape = "unary right" ->
             ApplyBinary(c.op2, Literal("", c.a), ApplyUnary(c.op1, Literal(c.op2, 3)))

\* C20: evaluate of an expression of two operators returns the value (or
\* raises the exception) of the reference evaluator, in which unary - and
\* not bind tighter than * and /, these tighter than + and -, these tighter
\* than the comparisons and ~, these tighter than and, and tighter than or,
\* operators of one level group from the left and parentheses override
\* (2 + 3 * 4 is 14 and (2 + 3) * 4 is 20).
C20_Precedence ==
    (pc = "idle" /\ result.op = "evaluate") =>
        \A c \in PrecedenceCases :
            (pre.code = c.text) =>
                IF Reference(c).err = ""
                THEN result = Returned("evaluate", Reference(c).val)
                ELSE result.status = "raise" /\ result.err = Reference(c).err

C20_Witness ==
    /\ pc = "idle"
    /\ result.op = "evaluate"
    /\ pre.code = "not 2 == 3"
    /\ result = Returned("evaluate", MkBool(FALSE))

\* ------------------------------------------------------------------ C21
\* the splitter's string literals, told by position: the character at k is
\* escaped when a backslash inside a literal, itself not escaped, precedes
\* it; a literal is open at k when an odd number of quotes that are not
\* escaped precede k
RECURSIVE OpenAt(_, _)
RECURSIVE EscapedAt(_, _)
OpenAt(code, k) ==
    IF k = 1 THEN FALSE
    ELSE IF Ch(code, k - 1) = "\"" /\ ~EscapedAt(code, k - 1)
         THEN ~OpenAt(code, k - 1) ELSE OpenAt(code, k - 1)

EscapedAt(code, k) ==
    k > 1 /\ Ch(code, k - 1) = "\\" /\ OpenAt(code, k - 1) /\ ~EscapedAt(code, k - 1)

\* the newlines that lie outside a string literal, and the ends of the text
Cuts(code) ==
    {0, Len(code) + 1} \cup {k \in 1..Len(code) : Ch(code, k) = "\n" /\ ~OpenAt(code, k)}

\* a piece without the white space around it
Trimmed(piece) ==
    LET inked == {k \in 1..Len(piece) : ~isspace(Ch(piece, k))}
    IN  IF inked = {} THEN ""
        ELSE SubSeq(piece, CHOOSE k \in inked : \A j \in inked : k <= j,
                    CHOOSE k \in inked : \A j \in inked : j <= k)

\* the trimmed pieces between neighbouring cuts from cut c on, in source order,
\* without the empty ones and the ones that begin with #
RECURSIVE PiecesFrom(_, _, _)
PiecesFrom(code, cuts, c) ==
    IF c > Len(code) THEN <<>>
    ELSE LET next == CHOOSE k \in cuts : k > c /\ \A j \in cuts : j > c => k <= j
             piece == Trimmed(SubSeq(code, c + 1, next - 1))
         IN  (IF piece = "" \/ Head(piece) = "#" THEN <<>> ELSE <<piece>>)
             \o PiecesFrom(code, cuts, next)

\* C21: for every source text the splitter returns, in source order, exactly
\* the trimmed non-empty pieces between the newlines outside a string
\* literal, without the pieces that begin with #; a newline inside an open
\* literal and an escaped quote inside a literal end no statement
C21_SplitPieces ==
    frame.op = "split" => frame.statements = PiecesFrom(pre.code, Cuts(pre.code), 0)

\* an escaped quote leaves the literal open, so the newline after it and the
\* letter after that stay in the one statement
C21_Witness ==
    /\ frame.op = "split"
    /\ pre.code = "\"\\\"\na"
    /\ frame.statements = <<"\"\\\"\na">>

\* ------------------------------------------------------------------ C29
\* what the lexer is reading before the character at k: code, a string
\* literal, the character after a backslash in a literal, or a comment, which
\* # and // open outside a literal and the end of the line closes
LexerStep(mode, c, next) ==
    CASE mode = "code" ->
             IF c = "\"" THEN "string"
             ELSE IF c = "#" \/ (c = "/" /\ next = "/") THEN "comment"
             ELSE "code"
      [] mode = "string" ->
             IF c = "\\" THEN "escape" ELSE IF c = "\"" THEN "code" ELSE "string"
      [] mode = "escape" -> "string"
      [] mode = "comment" -> IF c = "\n" THEN "code" ELSE "comment"

RECURSIVE LexerModeAt(_, _)
LexerModeAt(code, k) ==
    IF k = 1 THEN "code"
    ELSE LexerStep(LexerModeAt(code, k - 1), Ch(code, k - 1),
                   IF k <= Len(code) THEN Ch(code, k) ELSE "")

\* the newlines outside the lexer's string literals, and the ends of the text
LexerCuts(code) ==
    {0, Len(code) + 1} \cup
    {k \in 1..Len(code) :
         Ch(code, k) = "\n" /\ LexerModeAt(code, k) \in {"code", "comment"}}

\* a newline that ends a commented line with a quote in the comment
QuoteInComment(code) ==
    \E q, k \in 1..Len(code) :
        /\ q < k
        /\ Ch(code, q) = "\"" /\ LexerModeAt(code, q) = "comment"
        /\ Ch(code, k) = "\n" /\ LexerModeAt(code, k) = "comment"
        /\ \A j \in q..k - 1 : Ch(code, j) # "\n"

\* C29: a quote inside a # or // comment opens no string literal for the
\* splitter, so the splitter cuts the text at the newlines outside the
\* lexer's string literals, the newline that ends a commented line among them
C29_CommentQuoteOpensNoLiteral ==
    frame.op = "split" /\ QuoteInComment(pre.code) =>
        frame.statements = PiecesFrom(pre.code, LexerCuts(pre.code), 0)

\* ------------------------------------------------------------------ C22
DateNames == {"day", "month", "year"}

\* C22: the clock is read at construction only: whatever the clock shows,
\* between calls a name of the date that no call has given a value is bound
\* to the value captured at construction, and an evaluate call that reads it
\* returns that value
C22_ClockReadAtConstruction ==
    \A name \in DateNames :
        name \notin DOMAIN given =>
            /\ pc = "idle" =>
                   /\ name \in DOMAIN variables
                   /\ variables[name] = MkInt(now[name])
            /\ pc = "idle" /\ result.op = "evaluate" /\ pre.code = name =>
                   result = Returned("evaluate", MkInt(now[name]))

\* the year is read in a second call after the clock has moved on to the
\* next year
C22_Witness ==
    /\ pc = "idle"
    /\ ncalls = 2
    /\ result.op = "evaluate"
    /\ pre.code = "year"
    /\ "year" \notin DOMAIN given
    /\ clock.year > now.year
    /\ result = Returned("evaluate", MkInt(now.year))

\* ------------------------------------------------------------------ C23
\* the names of an instance are the built-in ones and those its own calls
\* have bound, with the values they gave them
OwnBindingsOnly(unit) ==
    /\ DOMAIN unit.variables = DateNames \cup DOMAIN unit.given
    /\ \A a \in DOMAIN unit.given : unit.variables[a] = unit.given[a]

\* C23: with one instance per unit of work, under every interleaving of the
\* steps of their evaluate calls an instance holds only the bindings of its
\* own calls, the tokens and the cursor of a call under way are those of its
\* own statement, and a call ends as it does when it runs alone from the
\* state its instance had when it began
C23_InstanceIsolation ==
    /\ OwnBindingsOnly(Running)
    /\ OwnBindingsOnly(parked)
    /\ \A unit \in {Running, parked} :
           /\ unit.pc = "parse" =>
                  /\ unit.tokens = tokenize(unit.frame.statements[unit.frame.k]).tokens
                  /\ unit.current_token_index = 0
           /\ unit.pc = "idle" /\ unit.result.op = "evaluate" =>
                  LET alone == evaluate(unit.pre.code, unit.pre.arg, unit.pre.inst)
                  IN  /\ unit.result = alone.result
                      /\ unit.variables = alone.inst.variables
                      /\ unit.host = alone.inst.host
                      /\ unit.tokens = alone.inst.tokens
                      /\ unit.current_token_index = alone.inst.current_token_index

\* the second unit of work has bound x to 2 and returned 3 while the call of
\* the first, which bound x to 1, waits before its second statement
C23_Witness ==
    /\ running = 2
    /\ pc = "idle"
    /\ pre.code = "x = 2\nx + 1"
    /\ result = Returned("evaluate", MkInt(3))
    /\ variables["x"] = MkInt(2)
    /\ parked.pre.code = "x = 1\nx"
    /\ parked.pc = "parse"
    /\ parked.frame.k = 2
    /\ parked.variables["x"] = MkInt(1)

\* ------------------------------------------------------------------ C24
\* C24: every error that evaluate raises, of whatever kind, carries the text
\* of the statement that failed, the last one the call had tokenized
C24_ErrorsCarryStatement ==
    pc = "idle" /\ result.op = "evaluate" /\ result.status = "raise" =>
        /\ trace.tokenized # <<>>
        /\ result.stmt = trace.tokenized[Len(trace.tokenized)]

\* ------------------------------------------------------------------ C25
\* C25: in "if COND then A else B" only the branch that COND selects is
\* evaluated: the call ends as the selected branch ends on its own, with its
\* value or its error and with its bindings, host properties and output and
\* no others
C25_OnlySelectedBranch ==
    pc = "idle" /\ result.op = "evaluate" =>
        \A k \in BranchCases :
            pre.code = k.text =>
                LET selected == IF Truthy(ValueOf(k.c)) THEN k.a ELSE k.b
                    only == evaluate(selected, pre.arg, pre.inst)
                IN  /\ result = only.result
                    /\ variables = only.inst.variables
                    /\ host = only.inst.host
                    /\ out = only.inst.out

\* ------------------------------------------------------------------ C27
\* what an assignment target holds: the value of the name or of the final
\* property, or nothing when the name is unbound or the property is not there
TargetState(vs, h, t) ==
    IF t.root \notin DOMAIN vs THEN <<>>
    ELSE LET w == Walk(h, vs[t.root], t.chain)
         IN  IF w.ok THEN <<w.val>> ELSE <<>>

\* C27 as the spec words it: when the right-hand side of an assignment raises,
\* the target holds what it held before the statement
C27_TargetKeepsPreviousState ==
    pc = "idle" /\ result.op = "evaluate" /\ result.status = "raise" =>
        \A k \in AssignCases :
            pre.code = k.text =>
                TargetState(variables, host, k.target) =
                    TargetState(update(pre.inst.variables, pre.arg), pre.inst.host,
                                k.target)

\* C27, amended: when the right-hand side of an assignment raises, the
\* assignment itself adds nothing: the error, the Environment and the host
\* properties are those the right-hand side leaves when it is evaluated on its
\* own, so the target holds what it held before the statement unless the
\* right-hand side itself assigned that target before it failed
C27_FailedAssignmentAddsNothing ==
    pc = "idle" /\ result.op = "evaluate" /\ result.status = "raise" =>
        \A k \in AssignCases :
            pre.code = k.text =>
                LET alone == evaluate(k.rhs, pre.arg, pre.inst)
                IN  /\ result = alone.result
                    /\ variables = alone.inst.variables
                    /\ host = alone.inst.host
                    /\ ~k.nested =>
                           TargetState(variables, host, k.target) =
                               TargetState(update(pre.inst.variables, pre.arg),
                                           pre.inst.host, k.target)

\* the division by zero on the right leaves x, bound by the call's variables
\* argument, at its old value
C27_Witness ==
    /\ pc = "idle"
    /\ pre.code = "x = 1 / 0"
    /\ result.status = "raise"
    /\ result.err = "ZeroDivisionError"
    /\ variables["x"] = MkInt(7)

\* ------------------------------------------------------------------ C28
\* C28: a statement that fails with a syntax error has had no effect: the
\* Environment, the host properties and the output are those of the instance
\* when the statement began
C28_MalformedStatementNoEffect ==
    pc = "idle" /\ result.op = "evaluate" /\ result.status = "raise"
                /\ result.err = "SyntaxError" =>
        /\ variables = trace.done.variables
        /\ host = trace.done.host
        /\ out = trace.done.out

\* ------------------------------------------------------------------ C26
\* C26: the tokens and the cursor that earlier calls left behind do not
\* change what evaluate does: the cursor is 0 whenever the parsing of a
\* statement starts, and a call ends with the result, the Environment, the
\* host properties and the output of the same call on the same instance with
\* an empty token list and the cursor at 0
C26_ParserStateDoesNotLeak ==
    /\ pc = "parse" => current_token_index = 0
    /\ pc = "idle" /\ result.op = "evaluate" =>
           LET clean == evaluate(pre.code, pre.arg,
                                 [pre.inst EXCEPT !.tokens = <<>>,
                                                  !.current_token_index = 0])
           IN  /\ result = clean.result
               /\ variables = clean.inst.variables
               /\ host = clean.inst.host
               /\ out = clean.inst.out
               /\ tokens = clean.inst.tokens
               /\ current_token_index = clean.inst.current_token_index

\* a script of two statements returns 6 on an instance whose earlier call left
\* tokens and a cursor in the middle of them behind
C26_Witness ==
    /\ pc = "idle"
    /\ ncalls = 2
    /\ pre.inst.tokens # <<>>
    /\ pre.inst.current_token_index > 0
    /\ pre.inst.current_token_index < Len(pre.inst.tokens) - 1
    /\ pre.code = "x = 5\nx + 1"
    /\ result = Returned("evaluate", MkInt(6))

\* ------------------------------------------------------------------ C30
\* the statement the call is at, and its tokens
StatementAt == IF pc \in {"tokenize", "parse", "verify"} /\ frame.statements # <<>>
               THEN frame.statements[frame.k] ELSE ""

TokensAt == LET t == tokenize(StatementAt) IN IF t.err = "" THEN t.tokens ELSE <<>>

\* the methods that parse or check one operand of a chain or one argument of
\* a call
OperandMethods ==
    {"parse_expression", "parse_or_expression", "parse_and_expression",
     "parse_comparison", "parse_additive", "parse_multiplicative", "parse_unary",
     "parse_primary"}

\* every scan of the lexer that starts at a character of the statement ends
\* behind it, and the tokens stand at ascending positions
LexerAdvances ==
    \A statement \in {StatementAt}, toks \in {TokensAt} :
        /\ \A i \in 1..Len(statement) :
               LET c == Ch(statement, i)
               IN  /\ isdigit(c) => number_end(statement, i) > i
                   /\ isalpha(c) \/ c = "_" => identifier_end(statement, i) > i
                   /\ c \in {"#", "/"} => line_end(statement, i) > i
                   /\ c = "\"" => string_body(statement, i + 1, "").next > i
        /\ \A j \in 1..Len(toks) - 1 :
               toks[j].position < toks[j + 1].position \/ toks[j + 1].type = "EOF"

\* from every cursor position of the statement's tokens consume_token stays
\* on the tokens and moves on unless it is at the last one, and a method that
\* parses an operand or an argument raises or leaves the cursor further on
ParserAdvances ==
    \A toks \in {TokensAt} :
        \A i \in 0..Len(toks) - 1 :
            /\ consume_token(toks, i) <= Len(toks) - 1
            /\ i < Len(toks) - 1 => consume_token(toks, i) = i + 1
            /\ \A method \in OperandMethods :
                   \A r \in {self(method, toks,
                                  ParserState(Instance(toks, i, variables, host, out),
                                              resolved))} :
                       r.err # "" \/ (i < r.idx /\ r.idx <= Len(toks) - 1)

\* the cursor of the instance is on a token, and the last token is EOF
CursorOnTokens ==
    tokens # <<>> =>
        /\ current_token_index \in 0..Len(tokens) - 1
        /\ tokens[Len(tokens)].type = "EOF"

\* C30: every call on a finite text ends, by returning or by raising: the
\* scans of the lexer and the operand methods of the parser advance or raise
\* from every position, the cursor never passes the EOF token, and a call
\* that has begun comes to its end
C30_CallsTerminate ==
    /\ [](LexerAdvances /\ ParserAdvances /\ CursorOnTokens)
    /\ (pc # "idle") ~> (pc = "idle")

\* the argument loop of an unclosed call has reached the EOF token and raised
C30_Witness ==
    /\ pc = "idle"
    /\ pre.code = "log(1, 2"
    /\ result.status = "raise"
    /\ result.err = "SyntaxError"
    /\ current_token_index = Len(tokens) - 1
    /\ tokens[Len(tokens)].type = "EOF"
====
